---- MODULE Spec2Model ----
(***************************************************************************)
(* A model of the Pot codec (khonsulabs/pot, src/pot/src): the atom-header *)
(* codec and the integer writers of format.rs, the SliceReader / IoReader  *)
(* of reader.rs, the encoder symbol maps and Serializer of ser.rs and the  *)
(* Deserializer and SymbolList of de.rs.                                   *)
(*                                                                         *)
(* Representation.  A byte is a number in 0..255 and a byte string is a    *)
(* sequence of bytes.  A u64 is a sequence of 64 bits, least significant   *)
(* bit first, so that headers of every length can be modelled without      *)
(* leaving the range of the model checker's integers.  A Rust integer of   *)
(* width w is its w little-endian two's-complement bytes together with its *)
(* signedness.                                                             *)
(***************************************************************************)
EXTENDS Integers, Sequences, FiniteSets, TLC

VARIABLES
    hIn,        \* SpecHeader: the input drawn (a kind and argument, or raw bytes)
    hOut,       \* SpecHeader: what write_atom_header returned and wrote
    hRes,       \* SpecHeader: what read_atom_header returned
    hpc,        \* SpecHeader: position (start / written / read / rawread)
    iIn,        \* SpecInteger: the writer and the value drawn
    iOut,       \* SpecInteger: what the writer returned and wrote
    iAtom,      \* SpecInteger: the result of read_atom over the bytes written
    iCast,      \* SpecInteger: the target type requested and what as_<T> returned
    ipc,        \* SpecInteger: position (start / written / read / cast)
    mode,       \* Spec: the tables of the session (ephemeral / persistent)
    sender,     \* Spec: the encoder's persistent ser::SymbolMap
    receiver,   \* Spec: the decoder's persistent de::SymbolMap
    wire,       \* Spec: the payload in flight
    sent,       \* Spec: the type and value of the payload last encoded
    got,        \* Spec: what the last decode returned
    log,        \* Spec: the write_symbol calls of the payloads put on the wire
    payloads,   \* Spec: the number of payloads encoded so far
    rejected,   \* Spec: the number of payloads whose encoding failed
    spc,        \* Spec: position (ready / encoded / rejected / decoded)
    tTable,     \* SpecSymbols: the table exercised (ephemeral / persistent / list)
    tEphemeral, \* SpecSymbols: the symbols of an EphemeralSymbolMap
    tPersistent, \* SpecSymbols: a ser::SymbolMap
    tList,      \* SpecSymbols: a decoder SymbolMapRef and its SymbolList
    tAnswers,   \* SpecSymbols: the string and the answer of every call so far
    aIn,        \* SpecAtoms: the atoms of the payload and the budget drawn
    aD,         \* SpecAtoms: the Deserializer
    aRead,      \* SpecAtoms: the remaining budget after each atom read so far
    aErr,       \* SpecAtoms: the error the decode stopped with
    apc,        \* SpecAtoms: position (start / reading / done / failed)
    rRd,        \* SpecReader: the reader
    rOp,        \* SpecReader: the last read: its name, the bytes asked for, the bytes left before
    rRes,       \* SpecReader: what the last read returned
    rpc         \* SpecReader: position (ready / read)

hvars == <<hIn, hOut, hRes, hpc>>
ivars == <<iIn, iOut, iAtom, iCast, ipc>>
svars == <<mode, sender, receiver, wire, sent, got, log, payloads, rejected, spc>>
tvars == <<tTable, tEphemeral, tPersistent, tList, tAnswers>>
avars == <<aIn, aD, aRead, aErr, apc>>
rvars == <<rRd, rOp, rRes, rpc>>
vars == <<hvars, ivars, svars, tvars, avars, rvars>>

Byte == 0..255

Min(a, b) == IF a < b THEN a ELSE b

RECURSIVE Repeat(_, _)
Repeat(b, n) == IF n <= 0 THEN <<>> ELSE <<b>> \o Repeat(b, n - 1)

\* F applied to e.  The value of e is computed once, however often F uses
\* its argument and also where ENABLED is evaluated: a result that is tested
\* and then taken apart is written Let(result, LAMBDA r : ...).
Let(e, F(_)) == CHOOSE y \in {F(x) : x \in {e}} : TRUE

(***************************************************************************)
(* u64 arithmetic on bit sequences.                                        *)
(***************************************************************************)
U64Zero == [i \in 1..64 |-> 0]

\* The u64 holding the small number n (n < 2^30).
U64(n) == [i \in 1..64 |-> IF i <= 30 THEN (n \div (2 ^ (i - 1))) % 2 ELSE 0]

\* `arg >>= n`
Shr(a, n) == [i \in 1..64 |-> IF i + n <= 64 THEN a[i + n] ELSE 0]

RECURSIVE LowBits(_, _)
\* `arg as u8 & (2^n - 1)`: the number held by the low n bits (n <= 8).
LowBits(a, n) == IF n = 0 THEN 0 ELSE a[1] + 2 * LowBits(Shr(a, 1), n - 1)

IsZero(a) == \A i \in 1..64 : a[i] = 0

\* `arg < 2^n`
Below(a, n) == \A i \in (n + 1)..64 : a[i] = 0

\* `arg |= u64::from(data) << offset` for a 7-bit `data`; bits shifted past
\* bit 63 are lost, as in the u64 shift.
OrShifted(a, data, offset) ==
    [i \in 1..64 |->
        IF i > offset /\ i <= offset + 7
        THEN IF a[i] = 1 \/ (data \div (2 ^ (i - offset - 1))) % 2 = 1 THEN 1 ELSE 0
        ELSE a[i]]

RECURSIVE BitsValue(_, _)
BitsValue(a, i) == IF i > 30 THEN 0 ELSE a[i] + 2 * BitsValue(a, i + 1)

\* `arg as usize`, saturated at Huge: every length, count and budget the model
\* uses is far below Huge, so a saturated value behaves as any larger one.
Huge == 2 ^ 30
ToNat(a) == IF Below(a, 30) THEN BitsValue(a, 1) ELSE Huge

(***************************************************************************)
(* Readers (reader.rs).  A reader is its kind and the bytes it has left.   *)
(* SliceReader overrides read_exact by a single read(), which copies what  *)
(* is there and reports success; the caller's buffer is zero-initialised   *)
(* (byteorder), so the bytes that were not there read as zero.  IoReader   *)
(* forwards read_exact to the wrapped std::io::Read, which fails.          *)
(***************************************************************************)
SliceReader(data) == [slice |-> TRUE, data |-> data]
IoReader(data) == [slice |-> FALSE, data |-> data]

Fail(err, rd) == [ok |-> FALSE, err |-> err, rd |-> rd]

\* impl Read for SliceReader: read (reader.rs 112-118)
Slice_read(rd, n) ==
    LET k == Min(Len(rd.data), n)
    IN  [n |-> k,
         bytes |-> SubSeq(rd.data, 1, k),
         rd |-> [rd EXCEPT !.data = SubSeq(rd.data, k + 1, Len(rd.data))]]

\* read_exact into a zeroed buffer of n bytes.
read_exact(rd, n) ==
    IF rd.slice
    THEN Let(Slice_read(rd, n), LAMBDA r :
            [ok |-> TRUE, err |-> "", rd |-> r.rd,
             bytes |-> r.bytes \o Repeat(0, n - r.n)])
    ELSE IF Len(rd.data) < n
         THEN [ok |-> FALSE, err |-> "Io", bytes |-> <<>>,
               rd |-> [rd EXCEPT !.data = <<>>]]
         ELSE [ok |-> TRUE, err |-> "", bytes |-> SubSeq(rd.data, 1, n),
               rd |-> [rd EXCEPT !.data = SubSeq(rd.data, n + 1, Len(rd.data))]]

\* Reader::buffered_read_bytes (reader.rs 94-107 and 139-147)
buffered_read_bytes(rd, length) ==
    IF rd.slice
    THEN IF length > Len(rd.data)
         THEN [ok |-> FALSE, err |-> "Eof", bytes |-> <<>>,
               rd |-> [rd EXCEPT !.data = <<>>]]
         ELSE [ok |-> TRUE, err |-> "", bytes |-> SubSeq(rd.data, 1, length),
               rd |-> [rd EXCEPT !.data = SubSeq(rd.data, length + 1, Len(rd.data))]]
    ELSE read_exact(rd, length)

(***************************************************************************)
(* Atom headers (format.rs 13-144).                                        *)
(***************************************************************************)
Kinds == 0..7

\* write_tiny_atom_header: one byte, kind << 5 | arg, for arg < 16.
write_tiny_atom_header(kind, arg) == << (kind * 32) + (arg % 16) >>

RECURSIVE HeaderTail(_, _, _)
\* The bytes after the first one: `arg` is what is left of the argument, n the
\* position of the byte being produced (second = 2 .. tenth = 10) and acc the
\* bytes before it, each already given its continuation flag.
HeaderTail(arg, n, acc) ==
    IF n = 10
    THEN [n |-> 10, bytes |-> acc \o << LowBits(arg, 8) >>]
    ELSE LET b == LowBits(arg, 7)
             rest == Shr(arg, 7)
         IN  IF IsZero(rest)
             THEN [n |-> n, bytes |-> acc \o << b >>]
             ELSE HeaderTail(rest, n + 1, acc \o << b + 128 >>)

\* write_atom_header: the count returned and the bytes written.
write_atom_header(kind, arg) ==
    IF Below(arg, 4)
    THEN [n |-> 1, bytes |-> write_tiny_atom_header(kind, LowBits(arg, 4))]
    ELSE HeaderTail(Shr(arg, 4), 2, << (kind * 32) + 16 + LowBits(arg, 4) >>)

\* The loop's exit test (format.rs 137), after bytes_remaining was decremented.
HeaderLoopBreaksShort(data, byte, bytes_remaining) == data = byte \/ bytes_remaining = 1
HeaderLoopBreaks(data, byte, bytes_remaining) == data = byte \/ bytes_remaining = 0

RECURSIVE HeaderLoop(_, _, _, _)
HeaderLoop(rd, arg, offset, bytes_remaining) ==
    Let(read_exact(rd, 1), LAMBDA r :
        IF ~r.ok THEN [ok |-> FALSE, err |-> r.err, arg |-> arg, rd |-> r.rd]
        ELSE LET byte == r.bytes[1]
                 data == byte % 128
                 arg2 == OrShifted(arg, data, offset)
             IN  IF HeaderLoopBreaks(data, byte, bytes_remaining - 1)
                 THEN [ok |-> TRUE, err |-> "", arg |-> arg2, rd |-> r.rd]
                 ELSE HeaderLoop(r.rd, arg2, offset + 7, bytes_remaining - 1))

\* read_atom_header (format.rs 124-144). Kind::from_u8 of a 3-bit number never fails.
read_atom_header(rd) ==
    Let(read_exact(rd, 1), LAMBDA r :
        IF ~r.ok THEN [ok |-> FALSE, err |-> r.err, kind |-> 0, arg |-> U64Zero, rd |-> r.rd]
        ELSE LET first_byte == r.bytes[1]
                 kind == first_byte \div 32
                 arg == U64(first_byte % 16)
             IN  IF (first_byte \div 16) % 2 = 1
                 THEN Let(HeaderLoop(r.rd, arg, 4, 9), LAMBDA l :
                        [ok |-> l.ok, err |-> l.err, kind |-> kind, arg |-> l.arg, rd |-> l.rd])
                 ELSE [ok |-> TRUE, err |-> "", kind |-> kind, arg |-> arg, rd |-> r.rd])

(***************************************************************************)
(* Integers (format.rs 315-486, 553-950).  A value of any integer type is  *)
(* held as the 16 little-endian bytes of its extension to 128 bits (sign   *)
(* extension for a signed type, zero extension for an unsigned one); the   *)
(* payload an N-byte writer emits is the first N of them.                  *)
(***************************************************************************)
KindInt == 1
KindUInt == 2

\* The value converts to the signed type of n bytes (iN::try_from, or the
\* explicit range test of write_i32 / write_i64).
FitsS(v, n) == \A i \in (n + 1)..16 : v[i] = (IF v[n] >= 128 THEN 255 ELSE 0)

\* The value converts to the unsigned type of n bytes.
FitsU(v, n) == \A i \in (n + 1)..16 : v[i] = 0

\* A tiny header followed by the first n bytes of the value; the count
\* returned is the payload size plus the header length.
IntAtom(kind, v, n) ==
    [n |-> n + 1, bytes |-> write_tiny_atom_header(kind, n - 1) \o SubSeq(v, 1, n)]

write_i8(v) ==
    Let(write_atom_header(KindInt, U64(0)), LAMBDA h :
        [n |-> 1 + h.n, bytes |-> h.bytes \o SubSeq(v, 1, 1)])
write_i16(v) == IF FitsS(v, 1) THEN write_i8(v) ELSE IntAtom(KindInt, v, 2)
write_i24(v) == IF FitsS(v, 2) THEN write_i16(v) ELSE IntAtom(KindInt, v, 3)
write_i32_wide(v) == IntAtom(KindInt, v, 4)
write_i32(v) == IF FitsS(v, 3) THEN write_i24(v) ELSE IntAtom(KindInt, v, 4)
write_i48(v) == IF FitsS(v, 4) THEN write_i32(v) ELSE IntAtom(KindInt, v, 6)
write_i64(v) == IF FitsS(v, 6) THEN write_i48(v) ELSE IntAtom(KindInt, v, 8)
write_i128(v) == IF FitsS(v, 8) THEN write_i64(v) ELSE IntAtom(KindInt, v, 16)

write_u8(v) == IntAtom(KindUInt, v, 1)
write_u16(v) == IF FitsU(v, 1) THEN write_u8(v) ELSE IntAtom(KindUInt, v, 2)
write_u24(v) == IF FitsU(v, 2) THEN write_u16(v) ELSE IntAtom(KindUInt, v, 3)
write_u32(v) == IF FitsU(v, 3) THEN write_u24(v) ELSE IntAtom(KindUInt, v, 4)
write_u48(v) == IF FitsU(v, 4) THEN write_u32(v) ELSE IntAtom(KindUInt, v, 6)
write_u64(v) == IF FitsU(v, 6) THEN write_u48(v) ELSE IntAtom(KindUInt, v, 8)
write_u128(v) == IF FitsU(v, 8) THEN write_u64(v) ELSE IntAtom(KindUInt, v, 16)

\* The integer writers: their name, signedness and the width of their
\* argument's range in bytes.
Writers ==
    { [name |-> "i8", signed |-> TRUE, width |-> 1], [name |-> "i16", signed |-> TRUE, width |-> 2],
      [name |-> "i24", signed |-> TRUE, width |-> 3], [name |-> "i32", signed |-> TRUE, width |-> 4],
      [name |-> "i48", signed |-> TRUE, width |-> 6], [name |-> "i64", signed |-> TRUE, width |-> 8],
      [name |-> "i128", signed |-> TRUE, width |-> 16],
      [name |-> "u8", signed |-> FALSE, width |-> 1], [name |-> "u16", signed |-> FALSE, width |-> 2],
      [name |-> "u24", signed |-> FALSE, width |-> 3], [name |-> "u32", signed |-> FALSE, width |-> 4],
      [name |-> "u48", signed |-> FALSE, width |-> 6], [name |-> "u64", signed |-> FALSE, width |-> 8],
      [name |-> "u128", signed |-> FALSE, width |-> 16] }

WriteWith(name, v) ==
    CASE name = "i8" -> write_i8(v)
      [] name = "i16" -> write_i16(v)
      [] name = "i24" -> write_i24(v)
      [] name = "i32" -> write_i32(v)
      [] name = "i48" -> write_i48(v)
      [] name = "i64" -> write_i64(v)
      [] name = "i128" -> write_i128(v)
      [] name = "u8" -> write_u8(v)
      [] name = "u16" -> write_u16(v)
      [] name = "u24" -> write_u24(v)
      [] name = "u32" -> write_u32(v)
      [] name = "u48" -> write_u48(v)
      [] name = "u64" -> write_u64(v)
      [] name = "u128" -> write_u128(v)

\* Sign or zero extension of n bytes read from the wire to 16 bytes.
Extend(bytes, signed) ==
    bytes \o Repeat(IF signed /\ bytes[Len(bytes)] >= 128 THEN 255 ELSE 0, 16 - Len(bytes))

\* The width of the InnerInteger variant that holds a payload of byte_len
\* bytes, 0 when the byte count is not supported.
CarrierWidth(byte_len) ==
    CASE byte_len = 1 -> 1
      [] byte_len = 2 -> 2
      [] byte_len \in {3, 4} -> 4
      [] byte_len \in {6, 8} -> 8
      [] byte_len = 16 -> 16
      [] OTHER -> 0

IntegerIdle == [signed |-> FALSE, width |-> 0, v |-> Repeat(0, 16)]

\* Integer::read_from
Integer_read_from(kind, byte_len, rd) ==
    IF kind \notin {KindInt, KindUInt}
    THEN [ok |-> FALSE, err |-> "UnexpectedKind", int |-> IntegerIdle, rd |-> rd]
    ELSE IF CarrierWidth(byte_len) = 0
    THEN [ok |-> FALSE, err |-> "UnsupportedByteCount", int |-> IntegerIdle, rd |-> rd]
    ELSE Let(read_exact(rd, byte_len), LAMBDA r :
            IF ~r.ok THEN [ok |-> FALSE, err |-> r.err, int |-> IntegerIdle, rd |-> r.rd]
            ELSE [ok |-> TRUE, err |-> "", rd |-> r.rd,
                  int |-> [signed |-> kind = KindInt, width |-> CarrierWidth(byte_len),
                           v |-> Extend(r.bytes, kind = KindInt)]])

CastOk(c) == [ok |-> TRUE, err |-> "", v |-> c.v]
CastErr == [ok |-> FALSE, err |-> "ImpreciseCastWouldLoseData", v |-> Repeat(0, 16)]
NonNegative(c) == c.v[c.width] < 128

as_i8(c) ==
    CASE c.signed /\ c.width = 1 -> CastOk(c)
      [] ~c.signed /\ c.width = 1 -> IF c.v[1] <= 127 THEN CastOk(c) ELSE CastErr
      [] OTHER -> CastErr
as_u8(c) ==
    CASE ~c.signed /\ c.width = 1 -> CastOk(c)
      [] c.signed /\ c.width = 1 -> IF NonNegative(c) THEN CastOk(c) ELSE CastErr
      [] OTHER -> CastErr
as_i16(c) ==
    CASE c.width = 1 -> CastOk(c)
      [] c.signed /\ c.width = 2 -> CastOk(c)
      [] ~c.signed /\ c.width = 2 -> IF c.v[2] <= 127 THEN CastOk(c) ELSE CastErr
      [] OTHER -> CastErr
as_u16(c) ==
    CASE c.signed /\ c.width \in {1, 2} -> IF NonNegative(c) THEN CastOk(c) ELSE CastErr
      [] ~c.signed /\ c.width \in {1, 2} -> CastOk(c)
      [] OTHER -> CastErr
as_i32(c) ==
    CASE c.width \in {1, 2} -> CastOk(c)
      [] c.signed /\ c.width = 4 -> CastOk(c)
      [] ~c.signed /\ c.width = 4 -> IF c.v[4] <= 127 THEN CastOk(c) ELSE CastErr
      [] OTHER -> CastErr
as_u32(c) ==
    CASE c.signed /\ c.width \in {1, 2, 4} -> IF NonNegative(c) THEN CastOk(c) ELSE CastErr
      [] ~c.signed /\ c.width \in {1, 2, 4} -> CastOk(c)
      [] OTHER -> CastErr
as_i64(c) ==
    CASE c.width \in {1, 2, 4} -> CastOk(c)
      [] c.signed /\ c.width = 8 -> CastOk(c)
      [] ~c.signed /\ c.width = 8 -> IF c.v[8] <= 127 THEN CastOk(c) ELSE CastErr
      [] OTHER -> CastErr
as_i128(c) ==
    CASE c.width \in {1, 2, 4, 8} -> CastOk(c)
      [] c.signed /\ c.width = 16 -> CastOk(c)
      [] ~c.signed /\ c.width = 16 -> IF c.v[16] <= 127 THEN CastOk(c) ELSE CastErr
as_u64(c) ==
    CASE c.signed /\ c.width \in {1, 2, 4, 8} -> IF NonNegative(c) THEN CastOk(c) ELSE CastErr
      [] ~c.signed /\ c.width \in {1, 2, 4, 8} -> CastOk(c)
      [] OTHER -> CastErr
as_u128(c) ==
    CASE c.signed -> IF NonNegative(c) THEN CastOk(c) ELSE CastErr
      [] ~c.signed -> CastOk(c)

\* Integer values.  A value is drawn as a shape and an exponent (2^k, 2^k - 1,
\* -2^k, -2^k - 1) or as a small number.
\* The width in bits of the widest integer type (i128 / u128).
IntBits == 128

SmallValues == {200, 300, -200, -300}

IntValues ==
    [shape : {"pow", "powm1", "negpow", "negpowm1"}, k : 0..IntBits]
        \cup [shape : {"small"}, k : SmallValues]

PowByte(k, i) == IF i - 1 = k \div 8 THEN 2 ^ (k % 8) ELSE 0
PowM1Byte(k, i) ==
    IF i - 1 < k \div 8 THEN 255 ELSE IF i - 1 = k \div 8 THEN (2 ^ (k % 8)) - 1 ELSE 0
SmallByte(n, i) ==
    LET m == IF n < 0 THEN 65536 + n ELSE n
    IN  CASE i = 1 -> m % 256
          [] i = 2 -> m \div 256
          [] OTHER -> IF n < 0 THEN 255 ELSE 0

\* The 16 bytes of the value's extension to 128 bits.
ValueBytes(d) ==
    [i \in 1..16 |->
        CASE d.shape = "pow" -> PowByte(d.k, i)
          [] d.shape = "powm1" -> PowM1Byte(d.k, i)
          [] d.shape = "negpow" -> 255 - PowM1Byte(d.k, i)
          [] d.shape = "negpowm1" -> 255 - PowByte(d.k, i)
          [] d.shape = "small" -> SmallByte(d.k, i)]

\* The value lies in the range of the integer type of the given signedness
\* and width in bytes, by arithmetic on the exponent.
InRange(d, signed, width) ==
    LET bits == 8 * width
    IN  CASE d.shape = "pow" -> IF signed THEN d.k < bits - 1 ELSE d.k < bits
          [] d.shape = "powm1" -> IF signed THEN d.k <= bits - 1 ELSE d.k <= bits
          [] d.shape = "negpow" -> signed /\ d.k <= bits - 1
          [] d.shape = "negpowm1" -> signed /\ d.k < bits - 1
          [] d.shape = "small" ->
                IF bits > 16 THEN signed \/ d.k >= 0
                ELSE IF signed THEN d.k >= -(2 ^ (bits - 1)) /\ d.k < 2 ^ (bits - 1)
                ELSE d.k >= 0 /\ d.k < 2 ^ bits

\* The types a deserializer can request (deserialize_i8 .. deserialize_u128).
Targets ==
    { [name |-> "i8", signed |-> TRUE, width |-> 1], [name |-> "i16", signed |-> TRUE, width |-> 2],
      [name |-> "i32", signed |-> TRUE, width |-> 4], [name |-> "i64", signed |-> TRUE, width |-> 8],
      [name |-> "i128", signed |-> TRUE, width |-> 16],
      [name |-> "u8", signed |-> FALSE, width |-> 1], [name |-> "u16", signed |-> FALSE, width |-> 2],
      [name |-> "u32", signed |-> FALSE, width |-> 4], [name |-> "u64", signed |-> FALSE, width |-> 8],
      [name |-> "u128", signed |-> FALSE, width |-> 16] }

CastWith(name, c) ==
    CASE name = "i8" -> as_i8(c)
      [] name = "i16" -> as_i16(c)
      [] name = "i32" -> as_i32(c)
      [] name = "i64" -> as_i64(c)
      [] name = "i128" -> as_i128(c)
      [] name = "u8" -> as_u8(c)
      [] name = "u16" -> as_u16(c)
      [] name = "u32" -> as_u32(c)
      [] name = "u64" -> as_u64(c)
      [] name = "u128" -> as_u128(c)

(***************************************************************************)
(* Atoms (format.rs 1045-1119).  A nucleus is a record of one shape for    *)
(* every variant: its tag and the field the variant carries.               *)
(***************************************************************************)
KindSpecial == 0
KindFloat == 3
KindSequence == 4
KindMap == 5
KindSymbol == 6
KindBytes == 7

Nucleus(tag) == [tag |-> tag, bool |-> FALSE, int |-> IntegerIdle, bytes |-> <<>>]
NucleusNone == Nucleus("None")
NucleusBoolean(b) == [Nucleus("Boolean") EXCEPT !.bool = b]
NucleusInteger(i) == [Nucleus("Integer") EXCEPT !.int = i]
NucleusFloat(b) == [Nucleus("Float") EXCEPT !.bytes = b]
NucleusBytes(b) == [Nucleus("Bytes") EXCEPT !.bytes = b]

Atom(kind, arg, nucleus) == [kind |-> kind, arg |-> arg, nucleus |-> nucleus]
AtomIdle == Atom(KindSpecial, U64Zero, NucleusNone)

\* Special::try_from and the nucleus read_atom gives each special.
SpecialNucleus(arg) ==
    LET n == ToNat(arg)
    IN  CASE n = 0 -> NucleusNone
          [] n = 1 -> Nucleus("Unit")
          [] n = 2 -> NucleusBoolean(FALSE)
          [] n = 3 -> NucleusBoolean(TRUE)
          [] n = 4 -> Nucleus("Named")
          [] n = 5 -> Nucleus("DynamicMap")
          [] n = 6 -> Nucleus("DynamicEnd")
          [] OTHER -> Nucleus("UnknownSpecial")

\* in_memory_int_size
in_memory_int_size_encoded(encoded_length) == encoded_length
in_memory_int_size(encoded_length) ==
    CASE encoded_length = 3 -> 4
      [] encoded_length = 6 -> 8
      [] OTHER -> encoded_length

\* update_budget: budget.checked_sub(read_amount)
update_budget(budget, read_amount) ==
    IF read_amount <= budget
    THEN [ok |-> TRUE, budget |-> budget - read_amount]
    ELSE [ok |-> FALSE, budget |-> budget]

\* Float::read_from, for a Float atom: the payload bytes of the float.
Float_read_from(byte_len, rd) ==
    IF byte_len \notin {2, 4, 8}
    THEN [ok |-> FALSE, err |-> "UnsupportedByteCount", bytes |-> <<>>, rd |-> rd]
    ELSE read_exact(rd, byte_len)

AtomResult(ok, err, atom, rd, budget) ==
    [ok |-> ok, err |-> err, atom |-> atom, rd |-> rd, budget |-> budget]

\* `arg as usize + 1` (format.rs 1071 and 1080) on a 64-bit target: for
\* arg = u64::MAX the sum overflows, and a build with overflow checks panics
\* where a build without them continues with 0.
AllOnes(arg) == \A i \in 1..64 : arg[i] = 1
Panicked == "panicked: attempt to add with overflow"
PlusOne(arg) == IF AllOnes(arg) THEN 0 ELSE ToNat(arg) + 1

\* format::read_atom in a build with or without overflow checks
read_atom_built(rd, remaining_budget, overflow_checks) ==
    Let(read_atom_header(rd), LAMBDA h :
        IF ~h.ok THEN AtomResult(FALSE, h.err, AtomIdle, h.rd, remaining_budget)
        ELSE CASE h.kind \in {KindSequence, KindMap, KindSymbol} ->
                    AtomResult(TRUE, "", Atom(h.kind, h.arg, NucleusNone), h.rd, remaining_budget)
               [] h.kind = KindSpecial ->
                    Let(SpecialNucleus(h.arg), LAMBDA n :
                        IF n.tag = "UnknownSpecial"
                        THEN AtomResult(FALSE, "UnknownSpecial", AtomIdle, h.rd, remaining_budget)
                        ELSE AtomResult(TRUE, "", Atom(h.kind, h.arg, n), h.rd, remaining_budget))
               [] h.kind \in {KindInt, KindUInt, KindFloat} /\ AllOnes(h.arg) /\ overflow_checks ->
                    AtomResult(FALSE, Panicked, AtomIdle, h.rd, remaining_budget)
               [] h.kind \in {KindInt, KindUInt} ->
                    Let(PlusOne(h.arg), LAMBDA bytes :
                    Let(update_budget(remaining_budget, in_memory_int_size(bytes)), LAMBDA b :
                        IF ~b.ok
                        THEN AtomResult(FALSE, "TooManyBytesRead", AtomIdle, h.rd, b.budget)
                        ELSE Let(Integer_read_from(h.kind, bytes, h.rd), LAMBDA i :
                            IF ~i.ok THEN AtomResult(FALSE, i.err, AtomIdle, i.rd, b.budget)
                            ELSE AtomResult(TRUE, "", Atom(h.kind, h.arg, NucleusInteger(i.int)),
                                            i.rd, b.budget))))
               [] h.kind = KindFloat ->
                    Let(PlusOne(h.arg), LAMBDA bytes :
                    Let(update_budget(remaining_budget, in_memory_int_size(bytes)), LAMBDA b :
                        IF ~b.ok
                        THEN AtomResult(FALSE, "TooManyBytesRead", AtomIdle, h.rd, b.budget)
                        ELSE Let(Float_read_from(bytes, h.rd), LAMBDA f :
                            IF ~f.ok THEN AtomResult(FALSE, f.err, AtomIdle, f.rd, b.budget)
                            ELSE AtomResult(TRUE, "", Atom(h.kind, h.arg, NucleusFloat(f.bytes)),
                                            f.rd, b.budget))))
               [] h.kind = KindBytes ->
                    Let(ToNat(h.arg), LAMBDA bytes :
                    Let(update_budget(remaining_budget, bytes), LAMBDA b :
                        IF ~b.ok
                        THEN AtomResult(FALSE, "TooManyBytesRead", AtomIdle, h.rd, b.budget)
                        ELSE Let(buffered_read_bytes(h.rd, bytes), LAMBDA r :
                            IF ~r.ok THEN AtomResult(FALSE, r.err, AtomIdle, r.rd, b.budget)
                            ELSE AtomResult(TRUE, "", Atom(h.kind, h.arg, NucleusBytes(r.bytes)),
                                            r.rd, b.budget)))))

\* format::read_atom where no argument is u64::MAX, as in every payload an
\* encoder writes: the build makes no difference.
read_atom(rd, remaining_budget) == read_atom_built(rd, remaining_budget, FALSE)

(***************************************************************************)
(* Symbols and symbol tables (ser.rs 504-633, de.rs 1116-1170).  A symbol  *)
(* is a &'static str: the address of its first byte in static memory and   *)
(* its length.  Two symbols can hold equal bytes at different addresses,   *)
(* and one can be a prefix slice of another at the same address.           *)
(***************************************************************************)
\* The static memory the symbols are slices of: "abab".
StaticMemory == <<97, 98, 97, 98>>

\* The longest symbol.
MaxSymbolLen == 2

Symbols ==
    {s \in [addr : 0..(Len(StaticMemory) - 1), len : 1..MaxSymbolLen] :
        s.addr + s.len <= Len(StaticMemory)}

\* symbol.as_bytes()
Content(symbol) == SubSeq(StaticMemory, symbol.addr + 1, symbol.addr + symbol.len)

RECURSIVE LexLess(_, _)
\* a < b in the byte-wise lexicographic order of str::cmp
LexLess(a, b) ==
    IF b = <<>> THEN FALSE
    ELSE IF a = <<>> THEN TRUE
    ELSE IF a[1] # b[1] THEN a[1] < b[1]
    ELSE LexLess(Tail(a), Tail(b))

InsertAt(seq, position, e) ==
    SubSeq(seq, 1, position) \o <<e>> \o SubSeq(seq, position + 1, Len(seq))

RegisteredSymbol(id, new) == [id |-> id, new |-> new]

\* EphemeralSymbolMap::find_or_add over symbols : Vec<(&'static str, u32)>,
\* kept sorted by address; the binary search compares addresses only.
Ephemeral_find_or_add(symbols, symbol) ==
    LET found == {i \in 1..Len(symbols) : symbols[i].sym.addr = symbol.addr}
        position == Cardinality({i \in 1..Len(symbols) : symbols[i].sym.addr < symbol.addr})
    IN  IF found # {}
        THEN [reg |-> RegisteredSymbol(symbols[CHOOSE i \in found : TRUE].id, FALSE),
              symbols |-> symbols]
        ELSE [reg |-> RegisteredSymbol(Len(symbols), TRUE),
              symbols |-> InsertAt(symbols, position, [sym |-> symbol, id |-> Len(symbols)])]

\* ser::SymbolMap::new
SymbolMap_new == [symbols |-> <<>>, entries |-> <<>>, static_lookup |-> <<>>]

EntryStr(map, entry) == SubSeq(map.symbols, entry.start + 1, entry.end)

\* The ID a new entry of the persistent map receives (ser.rs 625).
NewEntryIdAtPosition(map, insert_at) == insert_at
NewEntryId(map, insert_at) == Len(map.entries)

\* ser::SymbolMap::find_entry_by_str: entries are kept sorted by content.
find_entry_by_str(map, str) ==
    LET found == {i \in 1..Len(map.entries) : EntryStr(map, map.entries[i]) = str}
        insert_at == Cardinality({i \in 1..Len(map.entries) :
                                    LexLess(EntryStr(map, map.entries[i]), str)})
    IN  IF found # {}
        THEN [reg |-> RegisteredSymbol(map.entries[CHOOSE i \in found : TRUE].id, FALSE),
              map |-> map]
        ELSE LET id == NewEntryId(map, insert_at)
                 start == Len(map.symbols)
             IN  [reg |-> RegisteredSymbol(id, TRUE),
                  map |-> [map EXCEPT
                            !.symbols = @ \o str,
                            !.entries = InsertAt(@, insert_at,
                                [start |-> start, end |-> start + Len(str), id |-> id])]]

\* ser::SymbolMap::find_or_add: static_lookup is searched by address first
\* (its comparator keeps it in descending address order); only an address
\* that was never seen is looked up by content.
Persistent_find_or_add(map, symbol) ==
    LET found == {i \in 1..Len(map.static_lookup) : map.static_lookup[i].addr = symbol.addr}
        position == Cardinality({i \in 1..Len(map.static_lookup) :
                                    map.static_lookup[i].addr > symbol.addr})
    IN  IF found # {}
        THEN [reg |-> RegisteredSymbol(map.static_lookup[CHOOSE i \in found : TRUE].id, FALSE),
              map |-> map]
        ELSE Let(find_entry_by_str(map, Content(symbol)), LAMBDA e :
                [reg |-> e.reg,
                 map |-> [e.map EXCEPT !.static_lookup =
                            InsertAt(@, position, [addr |-> symbol.addr, id |-> e.reg.id])]])

\* SymbolMapRef (ser.rs 732-744): the serializer's table, ephemeral or persistent.
SymbolMapRef_Ephemeral == [persistent |-> FALSE, ephemeral |-> <<>>, map |-> SymbolMap_new]
SymbolMapRef_Persistent(map) == [persistent |-> TRUE, ephemeral |-> <<>>, map |-> map]

SymbolMapRef_find_or_add(ref, symbol) ==
    IF ref.persistent
    THEN Let(Persistent_find_or_add(ref.map, symbol), LAMBDA r :
            [reg |-> r.reg, ref |-> [ref EXCEPT !.map = r.map]])
    ELSE Let(Ephemeral_find_or_add(ref.ephemeral, symbol), LAMBDA r :
            [reg |-> r.reg, ref |-> [ref EXCEPT !.ephemeral = r.symbols]])

\* de::SymbolList: entries are borrowed from the input or ranges of the buffer.
SymbolList_new == [buffer |-> <<>>, entries |-> <<>>]

\* SymbolList::push_borrowed
push_borrowed(list, borrowed) ==
    [list EXCEPT !.entries = Append(@, [borrowed |-> TRUE, str |-> borrowed, start |-> 0, end |-> 0])]

\* SymbolList::push
SymbolList_push(list, ephemeral) ==
    LET start == Len(list.buffer)
    IN  [buffer |-> list.buffer \o ephemeral,
         entries |-> Append(list.entries,
            [borrowed |-> FALSE, str |-> <<>>, start |-> start, end |-> start + Len(ephemeral)])]

\* SymbolList::resolve_entry
resolve_entry(list, entry) ==
    IF entry.borrowed THEN entry.str ELSE SubSeq(list.buffer, entry.start + 1, entry.end)

\* The strings of a list in ID order.
SymbolList_strings(list) == [i \in 1..Len(list.entries) |-> resolve_entry(list, list.entries[i])]

(***************************************************************************)
(* The values of the serde data model that the sessions encode.  A type is *)
(* a tree [t, kids, syms, known]: kids are the component types, syms the   *)
(* field names of a struct (for a variant: its name, then its field        *)
(* names), known tells whether a map reports its length.  A value is a     *)
(* tree [t, n, b, kids] of the same outline.                               *)
(***************************************************************************)
TLeaf(t) == [t |-> t, kids |-> <<>>, syms |-> <<>>, known |-> TRUE]
TOption(T) == [t |-> "option", kids |-> <<T>>, syms |-> <<>>, known |-> TRUE]
TSeq(T) == [t |-> "seq", kids |-> <<T>>, syms |-> <<>>, known |-> TRUE]
\* A sequence serialized from an iterator that cannot tell its length.
TSeqUnknown(T) == [t |-> "seq", kids |-> <<T>>, syms |-> <<>>, known |-> FALSE]
TMap(K, V, known) == [t |-> "map", kids |-> <<K, V>>, syms |-> <<>>, known |-> known]
TStruct(syms, kids) == [t |-> "struct", kids |-> kids, syms |-> syms, known |-> TRUE]
TVariant(shape, name, fields, kids) ==
    [t |-> shape, kids |-> kids, syms |-> <<name>> \o fields, known |-> TRUE]
TEnum(variants) == [t |-> "enum", kids |-> variants, syms |-> <<>>, known |-> TRUE]

VNode(t, n, b, kids) == [t |-> t, n |-> n, b |-> b, kids |-> kids]
VInt(t, n) == VNode(t, n, <<>>, <<>>)
VBool(b) == VNode("bool", IF b THEN 1 ELSE 0, <<>>, <<>>)
VUnit == VNode("unit", 0, <<>>, <<>>)
VStr(b) == VNode("str", 0, b, <<>>)
VBytes(b) == VNode("bytes", 0, b, <<>>)
VNone == VNode("none", 0, <<>>, <<>>)
VSome(v) == VNode("some", 0, <<>>, <<v>>)
VSeq(vs) == VNode("seq", 0, <<>>, vs)
VMap(kvs) == VNode("map", 0, <<>>, kvs)
VStruct(vs) == VNode("struct", 0, <<>>, vs)
VVariant(index, vs) == VNode("variant", index, <<>>, vs)
\* A float: the constant 0.0 (n = 0), the float of the integer whose bytes
\* are b (n = 1), or the float whose wire bytes are b (n = 2).
VFloat(t, n, b) == VNode(t, n, b, <<>>)

(***************************************************************************)
(* Serializer (ser.rs 17-468).  The serializer is its symbol table, the    *)
(* output written so far and, for the properties about symbols, the log of *)
(* what each write_symbol call was given and answered.                     *)
(***************************************************************************)
\* The version this crate writes (lib.rs CURRENT_VERSION).
CURRENT_VERSION == 0

\* format::write_header
write_header(version) == [n |-> 4, bytes |-> <<80, 111, 116, version>>]

\* format::write_special
write_special(special) == write_atom_header(KindSpecial, U64(special))
SpecialNone == 0
SpecialUnit == 1
SpecialFalse == 2
SpecialTrue == 3
SpecialNamed == 4
SpecialDynamicMap == 5
SpecialDynamicEnd == 6

\* format::write_bytes
write_bytes(value) ==
    Let(write_atom_header(KindBytes, U64(Len(value))), LAMBDA h :
        [n |-> Len(value) + h.n, bytes |-> h.bytes \o value])

\* Serializer::new_with_symbol_map
Serializer_new_with_symbol_map(symbol_map) ==
    LET h == write_header(CURRENT_VERSION)
    IN  [symbol_map |-> symbol_map, output |-> h.bytes, bytes_written |-> h.n,
         log |-> <<>>, ok |-> TRUE, err |-> ""]

\* `self.bytes_written += format::write_...(&mut self.output, ..)?`
Emit(s, w) == [s EXCEPT !.output = @ \o w.bytes, !.bytes_written = @ + w.n]

\* format::write_named(&mut self.output)?, whose count is not added.
EmitNamed(s) == [s EXCEPT !.output = @ \o write_special(SpecialNamed).bytes]

SerFail(s, err) == [s EXCEPT !.ok = FALSE, !.err = err]

\* Serializer::write_symbol
write_symbol(s, symbol) ==
    Let(SymbolMapRef_find_or_add(s.symbol_map, symbol), LAMBDA r :
        LET s1 == [s EXCEPT !.symbol_map = r.ref,
                            !.log = Append(@, [sym |-> symbol, new |-> r.reg.new, id |-> r.reg.id])]
        IN  IF r.reg.new
            THEN Let(write_atom_header(KindSymbol, U64(2 * symbol.len)), LAMBDA h :
                    Emit(s1, [n |-> h.n + symbol.len, bytes |-> h.bytes \o Content(symbol)]))
            ELSE Emit(s1, write_atom_header(KindSymbol, U64((2 * r.reg.id) + 1))))

IntDescriptor(n) == [shape |-> "small", k |-> n]

serialize_bool(s, v) == Emit(s, write_special(IF v THEN SpecialTrue ELSE SpecialFalse))
serialize_u8(s, n) == Emit(s, write_u8(ValueBytes(IntDescriptor(n))))
serialize_i16(s, n) == Emit(s, write_i16(ValueBytes(IntDescriptor(n))))
serialize_str(s, v) == Emit(s, write_bytes(v))
serialize_bytes(s, v) == Emit(s, write_bytes(v))
serialize_none(s) == Emit(s, write_special(SpecialNone))
serialize_unit(s) == Emit(s, write_special(SpecialUnit))

\* serialize_seq that writes the header of an empty sequence before it fails.
serialize_seq_header_first(s, len) ==
    LET s1 == Emit(s, write_atom_header(KindSequence, U64(IF len < 0 THEN 0 ELSE len)))
    IN  IF len < 0 THEN SerFail(s1, "SequenceSizeMustBeKnown") ELSE s1

\* serialize_seq; a length of -1 stands for None.
serialize_seq(s, len) ==
    IF len < 0 THEN SerFail(s, "SequenceSizeMustBeKnown")
    ELSE Emit(s, write_atom_header(KindSequence, U64(len)))

\* serialize_map; a length of -1 stands for None.
serialize_map(s, len) ==
    IF len >= 0 THEN Emit(s, write_atom_header(KindMap, U64(len)))
    ELSE Emit(s, write_special(SpecialDynamicMap))

\* MapSerializer::end
MapSerializer_end(s, known_length) ==
    IF ~known_length THEN [s EXCEPT !.output = @ \o write_special(SpecialDynamicEnd).bytes] ELSE s

\* serialize_unit_variant and the openings of the other variant shapes.
serialize_unit_variant(s, variant) == write_symbol(EmitNamed(s), variant)
serialize_tuple_variant(s, variant, len) ==
    LET s1 == write_symbol(EmitNamed(s), variant) IN serialize_seq(s1, len)
serialize_struct_variant(s, variant, len) ==
    LET s1 == write_symbol(EmitNamed(s), variant) IN serialize_map(s1, len)

RECURSIVE Serialize(_, _, _)
RECURSIVE SerializeElements(_, _, _, _)
RECURSIVE SerializeEntries(_, _, _, _)
RECURSIVE SerializeFields(_, _, _, _, _)
RECURSIVE SerializeElementsOf(_, _, _)

\* SerializeTupleVariant::serialize_field for each field of a tuple.
SerializeElementsOf(Ts, vs, s) ==
    IF vs = <<>> \/ ~s.ok THEN s
    ELSE SerializeElementsOf(Tail(Ts), Tail(vs), Serialize(Head(Ts), Head(vs), s))

\* SerializeSeq::serialize_element for each element from the i-th on.
SerializeElements(T, vs, i, s) ==
    IF i > Len(vs) \/ ~s.ok THEN s
    ELSE SerializeElements(T, vs, i + 1, Serialize(T, vs[i], s))

\* SerializeMap::serialize_key / serialize_value for each entry; kvs is the
\* keys and values in turn.
SerializeEntries(T, kvs, i, s) ==
    IF i > Len(kvs) \/ ~s.ok THEN s
    ELSE SerializeEntries(T, kvs, i + 1, Serialize(T.kids[2 - (i % 2)], kvs[i], s))

\* SerializeStruct::serialize_field for each field; first is the place of the
\* first field name in syms.
SerializeFields(syms, first, Ts, vs, s) ==
    IF vs = <<>> \/ ~s.ok THEN s
    ELSE SerializeFields(syms, first + 1, Tail(Ts), Tail(vs),
            Serialize(Head(Ts), Head(vs), write_symbol(s, syms[first])))

\* <T as Serialize>::serialize, as derived for structs and enums and as
\* implemented by serde for the primitive and collection types.
Serialize(T, v, s) ==
    IF ~s.ok THEN s
    ELSE CASE T.t = "u8" -> serialize_u8(s, v.n)
           [] T.t = "i16" -> serialize_i16(s, v.n)
           [] T.t = "bool" -> serialize_bool(s, v.n = 1)
           [] T.t = "unit" -> serialize_unit(s)
           [] T.t = "str" -> serialize_str(s, v.b)
           [] T.t = "bytes" -> serialize_bytes(s, v.b)
           [] T.t = "option" ->
                IF v.t = "none" THEN serialize_none(s) ELSE Serialize(T.kids[1], v.kids[1], s)
           [] T.t = "seq" ->
                SerializeElements(T.kids[1], v.kids, 1,
                    serialize_seq(s, IF T.known THEN Len(v.kids) ELSE -1))
           [] T.t = "map" ->
                MapSerializer_end(
                    SerializeEntries(T, v.kids, 1,
                        serialize_map(s, IF T.known THEN Len(v.kids) \div 2 ELSE -1)),
                    T.known)
           [] T.t = "struct" ->
                SerializeFields(T.syms, 1, T.kids, v.kids, serialize_map(s, Len(T.kids)))
           [] T.t = "enum" ->
                LET V == T.kids[v.n]
                IN  CASE V.t = "unit_variant" -> serialize_unit_variant(s, V.syms[1])
                      [] V.t = "newtype_variant" ->
                            Serialize(V.kids[1], v.kids[1], write_symbol(EmitNamed(s), V.syms[1]))
                      [] V.t = "tuple_variant" ->
                            SerializeElementsOf(V.kids, v.kids,
                                serialize_tuple_variant(s, V.syms[1], Len(V.kids)))
                      [] V.t = "struct_variant" ->
                            SerializeFields(V.syms, 2, V.kids, v.kids,
                                serialize_struct_variant(s, V.syms[1], Len(V.kids)))

(***************************************************************************)
(* Deserializer (de.rs 25-161, 262-835).  Every operation returns whether  *)
(* it succeeded, the error, the value handed to the visitor and the        *)
(* deserializer afterwards.                                                *)
(***************************************************************************)
RECURSIVE BitAnd(_, _)
BitAnd(a, b) ==
    IF a = 0 \/ b = 0 THEN 0
    ELSE ((a % 2) * (b % 2)) + (2 * BitAnd(a \div 2, b \div 2))

\* format::read_header: the four bytes are a big-endian u32 that must have
\* every bit of 0x506F7400 set; the version is its last byte.
read_header(rd) ==
    Let(read_exact(rd, 4), LAMBDA r :
        IF ~r.ok THEN [ok |-> FALSE, err |-> r.err, version |-> 0, rd |-> r.rd]
        ELSE IF /\ BitAnd(r.bytes[1], 80) = 80
                /\ BitAnd(r.bytes[2], 111) = 111
                /\ BitAnd(r.bytes[3], 116) = 116
             THEN [ok |-> TRUE, err |-> "", version |-> r.bytes[4], rd |-> r.rd]
             ELSE [ok |-> FALSE, err |-> "IncompatibleVersion", version |-> 0, rd |-> r.rd])

\* SymbolMapRef (de.rs 1057-1112): a temporary list or a borrowed persistent one.
DeSymbols(persistent, list) == [persistent |-> persistent, list |-> list]

DeOk(v, d) == [ok |-> TRUE, err |-> "", v |-> v, d |-> d]
DeErr(err, d) == [ok |-> FALSE, err |-> err, v |-> VUnit, d |-> d]

Deserializer_new_any_version(input, symbols, maximum_bytes_allocatable) ==
    Let(read_header(input), LAMBDA h :
        LET d == [input |-> h.rd, symbols |-> symbols, peeked_atom |-> <<>>,
                  remaining_budget |-> maximum_bytes_allocatable]
        IN  IF ~h.ok THEN DeErr(h.err, d) ELSE DeOk(VUnit, d))

\* Deserializer::new, with Deserializer::read_header
Deserializer_new(input, symbols, maximum_bytes_allocatable) ==
    Let(read_header(input), LAMBDA h :
        LET d == [input |-> h.rd, symbols |-> symbols, peeked_atom |-> <<>>,
                  remaining_budget |-> maximum_bytes_allocatable]
        IN  IF ~h.ok THEN DeErr(h.err, d)
            ELSE IF h.version <= CURRENT_VERSION THEN DeOk(VUnit, d)
            ELSE DeErr("IncompatibleVersion", d))

\* Deserializer::end_of_input
end_of_input(d) == d.input.data = <<>> /\ d.peeked_atom = <<>>

AtomOk(atom, d) == [ok |-> TRUE, err |-> "", atom |-> atom, d |-> d]
AtomErr(err, d) == [ok |-> FALSE, err |-> err, atom |-> AtomIdle, d |-> d]

\* Deserializer::read_atom
De_read_atom(d) ==
    IF d.peeked_atom # <<>>
    THEN AtomOk(Head(d.peeked_atom), [d EXCEPT !.peeked_atom = Tail(@)])
    ELSE Let(read_atom(d.input, d.remaining_budget), LAMBDA r :
            LET d1 == [d EXCEPT !.input = r.rd, !.remaining_budget = r.budget]
            IN  IF r.ok THEN AtomOk(r.atom, d1) ELSE AtomErr(r.err, d1))

\* Deserializer::peek_atom: peek_atom_at(0).
peek_atom(d) ==
    IF d.peeked_atom # <<>> THEN AtomOk(d.peeked_atom[1], d)
    ELSE Let(De_read_atom(d), LAMBDA r :
            IF ~r.ok THEN r
            ELSE AtomOk(r.atom, [r.d EXCEPT !.peeked_atom = Append(@, r.atom)]))

\* str::from_utf8 over the bytes of the model, ASCII and 0xFF.
Utf8Valid(bytes) == \A i \in 1..Len(bytes) : bytes[i] < 128

\* Error::UnknownSymbol(symbol_id)
UnknownSymbol(symbol_id) == "UnknownSymbol(" \o ToString(symbol_id) \o ")"

visit_symbol_id_truncated(d, symbol_id) ==
    Let(symbol_id % 2, LAMBDA index :
        IF index < Len(d.symbols.list.entries)
        THEN DeOk(VStr(resolve_entry(d.symbols.list, d.symbols.list.entries[index + 1])), d)
        ELSE DeErr(UnknownSymbol(symbol_id), d))

\* SymbolMapRef::visit_symbol_id
visit_symbol_id(d, symbol_id) ==
    IF symbol_id < Len(d.symbols.list.entries)
    THEN DeOk(VStr(resolve_entry(d.symbols.list, d.symbols.list.entries[symbol_id + 1])), d)
    ELSE DeErr(UnknownSymbol(symbol_id), d)

\* SymbolMapRef::push_borrowed / push: a temporary list borrows what a slice
\* reader lends; everything else is copied into the buffer.
DeSymbols_push(symbols, name, borrowed) ==
    IF borrowed /\ ~symbols.persistent
    THEN [symbols EXCEPT !.list = push_borrowed(@, name)]
    ELSE [symbols EXCEPT !.list = SymbolList_push(@, name)]

\* Deserializer::visit_symbol: the string handed to the visitor.
visit_symbol(d, atom) ==
    LET is_id == atom.arg[1] = 1
        arg == ToNat(Shr(atom.arg, 1))
    IN  IF is_id THEN visit_symbol_id(d, arg)
        ELSE Let(buffered_read_bytes(d.input, arg), LAMBDA r :
                LET d1 == [d EXCEPT !.input = r.rd]
                IN  IF ~r.ok THEN DeErr(r.err, d1)
                    ELSE IF ~Utf8Valid(r.bytes) THEN DeErr("InvalidUtf8", d1)
                    ELSE DeOk(VStr(r.bytes),
                              [d1 EXCEPT !.symbols = DeSymbols_push(@, r.bytes, d.input.slice)]))

IsUnit(atom) == atom.kind = KindSpecial /\ atom.nucleus.tag \in {"Unit"}

\* `Kind::Special if matches!(atom.nucleus, Some(Nucleus::Unit) | None)`
IsUnitOrNone(atom) == atom.kind = KindSpecial /\ atom.nucleus.tag \in {"Unit", "None"}

\* The number an integer of the given type holds (|n| < 2^15).
IntOf(v, signed) ==
    LET n == v[1] + (256 * v[2])
    IN  IF signed /\ v[2] >= 128 THEN n - 65536 ELSE n

\* deserialize_u8 .. deserialize_i128 for the target type named t.
deserialize_int(d, t, signed) ==
    Let(De_read_atom(d), LAMBDA a :
        IF ~a.ok THEN DeErr(a.err, a.d)
        ELSE IF a.atom.kind \in {KindInt, KindUInt}
        THEN Let(CastWith(t, a.atom.nucleus.int), LAMBDA c :
                IF c.ok THEN DeOk(VInt(t, IntOf(c.v, signed)), a.d) ELSE DeErr(c.err, a.d))
        ELSE IF IsUnitOrNone(a.atom) THEN DeOk(VInt(t, 0), a.d)
        ELSE DeErr("Message", a.d))

deserialize_u8(d) == deserialize_int(d, "u8", FALSE)
deserialize_i16(d) == deserialize_int(d, "i16", TRUE)

\* Integer::as_f32 and as_f64: the integer as i32 or i64, if it is within the
\* mantissa of the float (24 and 53 bits).
Integer_as_f32(c) ==
    Let(as_i32(c), LAMBDA i :
        IF ~i.ok THEN i ELSE IF i.v[4] \in {0, 255} THEN i ELSE CastErr)
Integer_as_f64(c) ==
    Let(as_i64(c), LAMBDA i :
        IF ~i.ok THEN i
        ELSE IF (i.v[8] = 0 /\ i.v[7] < 32) \/ (i.v[8] = 255 /\ i.v[7] >= 224) THEN i
        ELSE CastErr)

\* Bit k of an f64 on the wire, its exponent, and whether `value as f32`
\* is the same number: a zero, an infinity, or a number whose exponent and
\* mantissa an f32 holds, normal or subnormal.
FloatBit(bytes, k) == (bytes[(k \div 8) + 1] \div (2 ^ (k % 8))) % 2
RECURSIVE Exponent(_, _)
Exponent(bytes, k) ==
    IF k > 62 THEN 0 ELSE (FloatBit(bytes, k) * (2 ^ (k - 52))) + Exponent(bytes, k + 1)
LowBitsZero(bytes, n) == \A k \in 0..(n - 1) : FloatBit(bytes, k) = 0
ExactAsF32(bytes) ==
    Let(Exponent(bytes, 52), LAMBDA e :
        CASE e = 0 \/ e = 2047 -> LowBitsZero(bytes, 52)
          [] e >= 897 /\ e <= 1150 -> LowBitsZero(bytes, 29)
          [] e >= 874 /\ e < 897 -> LowBitsZero(bytes, 52 - (e - 874))
          [] OTHER -> FALSE)

\* Float::as_f32
Float_as_f32(bytes) ==
    IF Len(bytes) < 8 \/ ExactAsF32(bytes) THEN [ok |-> TRUE, err |-> ""]
    ELSE [ok |-> FALSE, err |-> "ImpreciseCastWouldLoseData"]

\* deserialize_f32 and deserialize_f64 for the target type named t.
deserialize_float(d, t) ==
    Let(De_read_atom(d), LAMBDA a :
        IF ~a.ok THEN DeErr(a.err, a.d)
        ELSE CASE a.atom.kind = KindInt ->
                    Let(IF t = "f32" THEN Integer_as_f32(a.atom.nucleus.int)
                        ELSE Integer_as_f64(a.atom.nucleus.int), LAMBDA c :
                        IF c.ok THEN DeOk(VFloat(t, 1, c.v), a.d) ELSE DeErr(c.err, a.d))
               [] a.atom.kind = KindFloat ->
                    Let(IF t = "f32" THEN Float_as_f32(a.atom.nucleus.bytes)
                        ELSE [ok |-> TRUE, err |-> ""], LAMBDA c :
                        IF c.ok THEN DeOk(VFloat(t, 2, a.atom.nucleus.bytes), a.d)
                        ELSE DeErr(c.err, a.d))
               [] IsUnitOrNone(a.atom) -> DeOk(VFloat(t, 0, <<>>), a.d)
               [] OTHER -> DeErr("Message", a.d))

\* Integer::is_zero
is_zero(c) == \A i \in 1..16 : c.v[i] = 0

deserialize_bool(d) ==
    Let(De_read_atom(d), LAMBDA a :
        IF ~a.ok THEN DeErr(a.err, a.d)
        ELSE IF a.atom.kind \in {KindSpecial, KindUInt, KindInt}
        THEN CASE a.atom.nucleus.tag = "Integer" -> DeOk(VBool(~is_zero(a.atom.nucleus.int)), a.d)
               [] a.atom.nucleus.tag = "Boolean" -> DeOk(VBool(a.atom.nucleus.bool), a.d)
               [] a.atom.nucleus.tag \in {"Unit", "None"} -> DeOk(VBool(FALSE), a.d)
               [] OTHER -> DeErr("Message", a.d)
        ELSE DeErr("Message", a.d))

RECURSIVE deserialize_str(_)
deserialize_str(d) ==
    Let(De_read_atom(d), LAMBDA a :
        IF ~a.ok THEN DeErr(a.err, a.d)
        ELSE CASE a.atom.kind = KindBytes ->
                    IF Utf8Valid(a.atom.nucleus.bytes)
                    THEN DeOk(VStr(a.atom.nucleus.bytes), a.d)
                    ELSE DeErr("InvalidUtf8", a.d)
               [] a.atom.kind = KindSymbol -> visit_symbol(a.d, a.atom)
               [] a.atom.kind = KindSpecial ->
                    IF a.atom.nucleus.tag = "Named" THEN deserialize_str(a.d)
                    ELSE IF a.atom.nucleus.tag \in {"Unit", "None"} THEN DeOk(VStr(<<>>), a.d)
                    ELSE visit_symbol(a.d, a.atom)
               [] OTHER -> DeErr("Message", a.d))

RECURSIVE ReadByteArray(_, _, _)
\* The Sequence arm of deserialize_bytes: count integers, each cast with as_u8.
ReadByteArray(d, count, buffer) ==
    IF count = 0 THEN DeOk(VBytes(buffer), d)
    ELSE Let(De_read_atom(d), LAMBDA a :
            IF ~a.ok THEN DeErr(a.err, a.d)
            ELSE IF a.atom.nucleus.tag # "Integer" THEN DeErr("Message", a.d)
            ELSE Let(as_u8(a.atom.nucleus.int), LAMBDA c :
                    IF ~c.ok THEN DeErr(c.err, a.d)
                    ELSE ReadByteArray(a.d, count - 1, Append(buffer, c.v[1]))))

deserialize_bytes(d) ==
    Let(De_read_atom(d), LAMBDA a :
        IF ~a.ok THEN DeErr(a.err, a.d)
        ELSE CASE a.atom.kind = KindBytes -> DeOk(VBytes(a.atom.nucleus.bytes), a.d)
               [] a.atom.kind = KindSequence -> ReadByteArray(a.d, ToNat(a.atom.arg), <<>>)
               [] IsUnitOrNone(a.atom) -> DeOk(VBytes(<<>>), a.d)
               [] OTHER -> DeErr("Message", a.d))

deserialize_unit(d) ==
    Let(De_read_atom(d), LAMBDA a :
        IF ~a.ok THEN DeErr(a.err, a.d)
        ELSE IF a.atom.kind = KindSpecial /\ a.atom.nucleus.tag = "Unit" THEN DeOk(VUnit, a.d)
        ELSE DeErr("Message", a.d))

deserialize_identifier(d) ==
    Let(De_read_atom(d), LAMBDA a :
        IF ~a.ok THEN DeErr(a.err, a.d)
        ELSE CASE a.atom.kind = KindSymbol -> visit_symbol(a.d, a.atom)
               [] a.atom.kind = KindBytes ->
                    IF Utf8Valid(a.atom.nucleus.bytes)
                    THEN DeOk(VStr(a.atom.nucleus.bytes), a.d)
                    ELSE DeErr("InvalidUtf8", a.d)
               [] OTHER -> DeErr("Message", a.d))

(***************************************************************************)
(* Sequence, map and enum access (de.rs 881-1053) and the Deserialize      *)
(* implementations that drive them: serde's for the primitive, option and  *)
(* collection types and IgnoredAny, the derived ones for structs and enums.*)
(***************************************************************************)
\* AtomList::new; a count of -1 stands for None.  EmptyList is an AtomList
\* that is empty from the start.
AtomList_new(count) == [consumed |-> 0, count |-> count, eof |-> FALSE]
EmptyList == [consumed |-> 0, count |-> 0, eof |-> TRUE]

EofResult(ok, err, eof, list, d) == [ok |-> ok, err |-> err, eof |-> eof, list |-> list, d |-> d]

check_is_eof_peeking(list, d) ==
    IF list.eof THEN EofResult(TRUE, "", TRUE, list, d)
    ELSE IF list.count >= 0
    THEN IF list.count = list.consumed
         THEN EofResult(TRUE, "", TRUE, [list EXCEPT !.eof = TRUE], d)
         ELSE EofResult(TRUE, "", FALSE, list, d)
    ELSE Let(peek_atom(d), LAMBDA a :
            IF ~a.ok THEN EofResult(FALSE, a.err, FALSE, list, a.d)
            ELSE IF a.atom.kind = KindSpecial /\ a.atom.nucleus.tag = "DynamicEnd"
            THEN EofResult(TRUE, "", TRUE, [list EXCEPT !.eof = TRUE], a.d)
            ELSE EofResult(TRUE, "", FALSE, list, a.d))

\* AtomList::check_is_eof
check_is_eof(list, d) ==
    IF list.eof THEN EofResult(TRUE, "", TRUE, list, d)
    ELSE IF list.count >= 0
    THEN IF list.count = list.consumed
         THEN EofResult(TRUE, "", TRUE, [list EXCEPT !.eof = TRUE], d)
         ELSE EofResult(TRUE, "", FALSE, list, d)
    ELSE Let(peek_atom(d), LAMBDA a :
            IF ~a.ok THEN EofResult(FALSE, a.err, FALSE, list, a.d)
            ELSE IF a.atom.kind = KindSpecial /\ a.atom.nucleus.tag = "DynamicEnd"
            THEN EofResult(TRUE, "", TRUE, [list EXCEPT !.eof = TRUE], De_read_atom(a.d).d)
            ELSE EofResult(TRUE, "", FALSE, list, a.d))

\* next_element_seed / next_key_seed up to the call of the seed.
Advance(list) == [list EXCEPT !.consumed = @ + 1]

\* The place of the field or variant named str among syms[first..], 0 when
\* there is none: the visit_str of a derived field or variant identifier.
FieldIndex(syms, first, str) ==
    LET found == {i \in first..Len(syms) : Content(syms[i]) = str}
    IN  IF found = {} THEN 0 ELSE (CHOOSE i \in found : \A j \in found : i <= j) - first + 1

IsOption(T) == T.t = "option"

RECURSIVE Deserialize(_, _)
RECURSIVE IgnoredAny(_)
RECURSIVE DrainSeq(_, _)
RECURSIVE DrainMap(_, _)
RECURSIVE VecVisitSeq(_, _, _, _)
RECURSIVE MapVisitMap(_, _, _, _)
RECURSIVE StructVisitMap(_, _, _, _, _, _)
RECURSIVE TupleVisitSeq(_, _, _, _)

\* IgnoredAny's visit_seq: elements are skipped until the access is empty.
DrainSeq(list, d) ==
    Let(check_is_eof(list, d), LAMBDA e :
        IF ~e.ok THEN DeErr(e.err, e.d)
        ELSE IF e.eof THEN DeOk(VUnit, e.d)
        ELSE Let(IgnoredAny(e.d), LAMBDA r :
                IF ~r.ok THEN r ELSE DrainSeq(Advance(e.list), r.d)))

\* IgnoredAny's visit_map.
DrainMap(list, d) ==
    Let(check_is_eof(list, d), LAMBDA e :
        IF ~e.ok THEN DeErr(e.err, e.d)
        ELSE IF e.eof THEN DeOk(VUnit, e.d)
        ELSE Let(IgnoredAny(e.d), LAMBDA k :
                IF ~k.ok THEN k
                ELSE Let(IgnoredAny(k.d), LAMBDA v :
                        IF ~v.ok THEN v ELSE DrainMap(Advance(e.list), v.d))))

\* IgnoredAny::deserialize: deserialize_ignored_any, which is deserialize_any.
IgnoredAny(d) ==
    Let(De_read_atom(d), LAMBDA a :
        IF ~a.ok THEN DeErr(a.err, a.d)
        ELSE CASE a.atom.kind = KindSpecial ->
                    (CASE a.atom.nucleus.tag = "Named" -> DrainMap(AtomList_new(1), a.d)
                       [] a.atom.nucleus.tag = "DynamicMap" -> DrainMap(AtomList_new(-1), a.d)
                       [] a.atom.nucleus.tag = "DynamicEnd" -> DeErr("Message", a.d)
                       [] OTHER -> DeOk(VUnit, a.d))
               [] a.atom.kind = KindSequence -> DrainSeq(AtomList_new(ToNat(a.atom.arg)), a.d)
               [] a.atom.kind = KindMap -> DrainMap(AtomList_new(ToNat(a.atom.arg)), a.d)
               [] a.atom.kind = KindSymbol ->
                    Let(visit_symbol(a.d, a.atom), LAMBDA r :
                        IF r.ok THEN DeOk(VUnit, r.d) ELSE r)
               [] OTHER -> DeOk(VUnit, a.d))

\* Vec<T>'s visit_seq: elements are pushed until the access is empty.
VecVisitSeq(T, list, d, acc) ==
    Let(check_is_eof(list, d), LAMBDA e :
        IF ~e.ok THEN DeErr(e.err, e.d)
        ELSE IF e.eof THEN DeOk(VSeq(acc), e.d)
        ELSE Let(Deserialize(T, e.d), LAMBDA r :
                IF ~r.ok THEN r ELSE VecVisitSeq(T, Advance(e.list), r.d, Append(acc, r.v))))

\* A map's visit_map: entries are inserted until the access is empty.
MapVisitMap(T, list, d, acc) ==
    Let(check_is_eof(list, d), LAMBDA e :
        IF ~e.ok THEN DeErr(e.err, e.d)
        ELSE IF e.eof THEN DeOk(VMap(acc), e.d)
        ELSE Let(Deserialize(T.kids[1], e.d), LAMBDA k :
                IF ~k.ok THEN k
                ELSE Let(Deserialize(T.kids[2], k.d), LAMBDA v :
                        IF ~v.ok THEN v
                        ELSE MapVisitMap(T, Advance(e.list), v.d, acc \o <<k.v, v.v>>))))

\* The end of a derived visit_map: a field that was never set is None when
\* it is an Option and a missing-field error otherwise.
FinishStruct(Ts, slots, d) ==
    IF \E i \in 1..Len(Ts) : ~slots[i].set /\ ~IsOption(Ts[i])
    THEN DeErr("Message", d)
    ELSE DeOk(VStruct([i \in 1..Len(Ts) |-> IF slots[i].set THEN slots[i].v ELSE VNone]), d)

\* The derived visit_map of a struct or struct variant whose field names are
\* syms[first..]: known fields are read with their type, and once only;
\* unknown ones are skipped.
StructVisitMap(syms, first, Ts, list, d, slots) ==
    Let(check_is_eof(list, d), LAMBDA e :
        IF ~e.ok THEN DeErr(e.err, e.d)
        ELSE IF e.eof THEN FinishStruct(Ts, slots, e.d)
        ELSE Let(deserialize_identifier(e.d), LAMBDA k :
                IF ~k.ok THEN k
                ELSE Let(FieldIndex(syms, first, k.v.b), LAMBDA i :
                        IF i = 0
                        THEN Let(IgnoredAny(k.d), LAMBDA v :
                                IF ~v.ok THEN v
                                ELSE StructVisitMap(syms, first, Ts, Advance(e.list), v.d, slots))
                        ELSE IF slots[i].set THEN DeErr("Message", k.d)
                        ELSE Let(Deserialize(Ts[i], k.d), LAMBDA v :
                                IF ~v.ok THEN v
                                ELSE StructVisitMap(syms, first, Ts, Advance(e.list), v.d,
                                        [slots EXCEPT ![i] = [set |-> TRUE, v |-> v.v]])))))

\* The derived visit_seq of a tuple variant: one element per field.
TupleVisitSeq(Ts, list, d, acc) ==
    IF Ts = <<>> THEN DeOk(acc, d)
    ELSE Let(check_is_eof(list, d), LAMBDA e :
            IF ~e.ok THEN DeErr(e.err, e.d)
            ELSE IF e.eof THEN DeErr("Message", e.d)
            ELSE Let(Deserialize(Head(Ts), e.d), LAMBDA r :
                    IF ~r.ok THEN r
                    ELSE TupleVisitSeq(Tail(Ts), Advance(e.list), r.d, Append(acc, r.v))))

\* deserialize_seq up to the visitor: the access it hands over.
deserialize_seq(d) ==
    Let(De_read_atom(d), LAMBDA a :
        IF ~a.ok THEN EofResult(FALSE, a.err, FALSE, EmptyList, a.d)
        ELSE IF a.atom.kind = KindSequence
        THEN EofResult(TRUE, "", FALSE, AtomList_new(ToNat(a.atom.arg)), a.d)
        ELSE IF IsUnitOrNone(a.atom) THEN EofResult(TRUE, "", FALSE, EmptyList, a.d)
        ELSE EofResult(FALSE, "Message", FALSE, EmptyList, a.d))

\* deserialize_map up to the visitor.
deserialize_map(d) ==
    Let(De_read_atom(d), LAMBDA a :
        IF ~a.ok THEN EofResult(FALSE, a.err, FALSE, EmptyList, a.d)
        ELSE CASE a.atom.kind = KindMap ->
                    EofResult(TRUE, "", FALSE, AtomList_new(ToNat(a.atom.arg)), a.d)
               [] a.atom.kind = KindSpecial /\ a.atom.nucleus.tag = "DynamicMap" ->
                    EofResult(TRUE, "", FALSE, AtomList_new(-1), a.d)
               [] IsUnitOrNone(a.atom) -> EofResult(TRUE, "", FALSE, EmptyList, a.d)
               [] OTHER -> EofResult(FALSE, "Message", FALSE, EmptyList, a.d))

deserialize_option_consuming(d) ==
    Let(De_read_atom(d), LAMBDA a :
        IF ~a.ok THEN DeErr(a.err, a.d)
        ELSE IF a.atom.kind = KindSpecial /\ a.atom.nucleus.tag = "None"
        THEN DeOk(VNone, a.d)
        ELSE DeOk(VSome(VUnit), a.d))

\* deserialize_option up to the visit: VNone for visit_none, VSome for visit_some.
deserialize_option(d) ==
    Let(peek_atom(d), LAMBDA a :
        IF ~a.ok THEN DeErr(a.err, a.d)
        ELSE IF a.atom.kind = KindSpecial /\ a.atom.nucleus.tag = "None"
        THEN DeOk(VNone, De_read_atom(a.d).d)
        ELSE DeOk(VSome(VUnit), a.d))

\* EnumAccess::variant_seed with the identifier of a derived enum.
variant_seed(d) ==
    Let(peek_atom(d), LAMBDA a :
        IF ~a.ok THEN DeErr(a.err, a.d)
        ELSE CASE a.atom.kind = KindSpecial /\ a.atom.nucleus.tag = "Named" ->
                    deserialize_identifier(De_read_atom(a.d).d)
               [] a.atom.kind = KindSymbol -> deserialize_identifier(a.d)
               [] OTHER -> DeErr("Message", a.d))

EmptySlots(Ts) == [i \in 1..Len(Ts) |-> [set |-> FALSE, v |-> VUnit]]

\* <T as Deserialize>::deserialize
Deserialize(T, d) ==
    CASE T.t = "u8" -> deserialize_u8(d)
      [] T.t = "i16" -> deserialize_i16(d)
      [] T.t \in {"i8", "i32", "i64", "i128"} -> deserialize_int(d, T.t, TRUE)
      [] T.t \in {"u16", "u32", "u64", "u128"} -> deserialize_int(d, T.t, FALSE)
      [] T.t \in {"f32", "f64"} -> deserialize_float(d, T.t)
      [] T.t = "bool" -> deserialize_bool(d)
      [] T.t = "unit" -> deserialize_unit(d)
      [] T.t = "str" -> deserialize_str(d)
      [] T.t = "bytes" -> deserialize_bytes(d)
      [] T.t = "option" ->
            Let(deserialize_option(d), LAMBDA o :
                IF ~o.ok \/ o.v.t = "none" THEN o
                ELSE Let(Deserialize(T.kids[1], o.d), LAMBDA r :
                        IF r.ok THEN DeOk(VSome(r.v), r.d) ELSE r))
      [] T.t = "seq" ->
            Let(deserialize_seq(d), LAMBDA a :
                IF ~a.ok THEN DeErr(a.err, a.d) ELSE VecVisitSeq(T.kids[1], a.list, a.d, <<>>))
      [] T.t = "map" ->
            Let(deserialize_map(d), LAMBDA a :
                IF ~a.ok THEN DeErr(a.err, a.d) ELSE MapVisitMap(T, a.list, a.d, <<>>))
      [] T.t = "struct" ->
            Let(deserialize_map(d), LAMBDA a :
                IF ~a.ok THEN DeErr(a.err, a.d)
                ELSE StructVisitMap(T.syms, 1, T.kids, a.list, a.d, EmptySlots(T.kids)))
      [] T.t = "enum" ->
            Let(variant_seed(d), LAMBDA k :
                IF ~k.ok THEN k
                ELSE Let(FieldIndex([n \in 1..Len(T.kids) |-> T.kids[n].syms[1]], 1, k.v.b),
                         LAMBDA i :
                    IF i = 0 THEN DeErr("Message", k.d)
                    ELSE Let(T.kids[i], LAMBDA V :
                        CASE V.t = "unit_variant" -> DeOk(VVariant(i, <<>>), k.d)
                          [] V.t = "newtype_variant" ->
                                Let(Deserialize(V.kids[1], k.d), LAMBDA r :
                                    IF r.ok THEN DeOk(VVariant(i, <<r.v>>), r.d) ELSE r)
                          [] V.t = "tuple_variant" ->
                                Let(deserialize_seq(k.d), LAMBDA a :
                                    IF ~a.ok THEN DeErr(a.err, a.d)
                                    ELSE Let(TupleVisitSeq(V.kids, a.list, a.d, <<>>), LAMBDA r :
                                            IF r.ok THEN DeOk(VVariant(i, r.v), r.d) ELSE r))
                          [] V.t = "struct_variant" ->
                                Let(deserialize_map(k.d), LAMBDA a :
                                    IF ~a.ok THEN DeErr(a.err, a.d)
                                    ELSE Let(StructVisitMap(V.syms, 2, V.kids, a.list, a.d,
                                                            EmptySlots(V.kids)), LAMBDA r :
                                            IF r.ok THEN DeOk(VVariant(i, r.v.kids), r.d) ELSE r)))))

(***************************************************************************)
(* The state of each specification's variables while another one runs.     *)
(***************************************************************************)
HeaderResultIdle == [ok |-> TRUE, err |-> "", kind |-> 0, arg |-> U64Zero, rd |-> SliceReader(<<>>)]
HeaderOutIdle == [n |-> 0, bytes |-> <<>>]

HeaderIdle ==
    /\ hpc = "idle"
    /\ hOut = HeaderOutIdle
    /\ hRes = HeaderResultIdle
    /\ hIn = [raw |-> FALSE, kind |-> 0, arg |-> U64Zero, bytes |-> <<>>, slice |-> TRUE]

WriterIdle == [name |-> "u8", signed |-> FALSE, width |-> 1]
IntCastIdle == [target |-> WriterIdle, res |-> CastErr]
IntAtomIdle == AtomResult(TRUE, "", AtomIdle, SliceReader(<<>>), 0)

IntegerSpecIdle ==
    /\ ipc = "idle"
    /\ iIn = [writer |-> WriterIdle, value |-> [shape |-> "small", k |-> 0]]
    /\ iOut = HeaderOutIdle
    /\ iAtom = IntAtomIdle
    /\ iCast = IntCastIdle

\* The payload: its type, its value and the length of the log before it.
SentIdle == [T |-> 1, v |-> VUnit, from |-> 0]
GotIdle == [ok |-> TRUE, err |-> "", v |-> VUnit, end_of_input |-> TRUE, T |-> TLeaf("unit")]

SessionIdle ==
    /\ spc = "idle"
    /\ mode = "idle"
    /\ sender = SymbolMap_new
    /\ receiver = SymbolList_new
    /\ wire = <<>>
    /\ sent = SentIdle
    /\ got = GotIdle
    /\ log = <<>>
    /\ payloads = 0
    /\ rejected = 0

SymbolsIdle ==
    /\ tTable = "idle"
    /\ tEphemeral = <<>>
    /\ tPersistent = SymbolMap_new
    /\ tList = DeSymbols(FALSE, SymbolList_new)
    /\ tAnswers = <<>>

DeserializerIdle ==
    [input |-> SliceReader(<<>>), symbols |-> DeSymbols(FALSE, SymbolList_new),
     peeked_atom |-> <<>>, remaining_budget |-> 0]

AtomsIdle ==
    /\ apc = "idle"
    /\ aIn = [atoms |-> <<>>, budget |-> 0, slice |-> TRUE]
    /\ aD = DeserializerIdle
    /\ aRead = <<>>
    /\ aErr = ""

ReadOpIdle == [name |-> "", n |-> 0, left |-> 0, front |-> <<>>]
ReadResultIdle == [ok |-> TRUE, err |-> "", consumed |-> 0]

ReaderIdle ==
    /\ rpc = "idle"
    /\ rRd = SliceReader(<<>>)
    /\ rOp = ReadOpIdle
    /\ rRes = ReadResultIdle

\* Every specification but the named one is idle.
OthersIdle(spec) ==
    /\ IF spec = "header" THEN TRUE ELSE HeaderIdle
    /\ IF spec = "integer" THEN TRUE ELSE IntegerSpecIdle
    /\ IF spec = "session" THEN TRUE ELSE SessionIdle
    /\ IF spec = "symbols" THEN TRUE ELSE SymbolsIdle
    /\ IF spec = "atoms" THEN TRUE ELSE AtomsIdle
    /\ IF spec = "reader" THEN TRUE ELSE ReaderIdle

(***************************************************************************)
(* SpecHeader: write_atom_header and read_atom_header applied to inputs    *)
(* drawn by Init, either a kind and a 64-bit argument that is written and  *)
(* read back, or the raw bytes of a header that are read.                  *)
(***************************************************************************)
\* The longest continuation chain (bytes after the first) of a raw header.
MaxChain == 11

\* Arguments with at most two bits set, one of them at the edge of a header
\* byte, and those with all bits below p set: every header length, and every
\* boundary between two lengths, occurs.
TwoBits(p, q) == [i \in 1..64 |-> IF i = p \/ i = q THEN 1 ELSE 0]
Ones(p) == [i \in 1..64 |-> IF i <= p THEN 1 ELSE 0]
\* The first and last bit carried by each header byte.
HeaderEdges == {1, 64} \cup {4 + (7 * j) : j \in 0..8} \cup {5 + (7 * j) : j \in 0..8}
HeaderArgs == {TwoBits(p, q) : p \in 0..64, q \in HeaderEdges} \cup {Ones(p) : p \in 1..64}

\* Raw headers: a first byte with the continuation flag, n bytes that all
\* carry the flag, and optionally an unflagged byte that ends the chain.
RawHeaders ==
    { << (k * 32) + 16 + a >> \o Repeat(128 + d, n) \o t :
        k \in {0, 4}, a \in {0, 15}, d \in {0, 1, 127}, n \in 0..MaxChain,
        t \in {<<>>, <<1>>, <<1, 2>>} }

HeaderInit ==
    /\ OthersIdle("header")
    /\ hpc = "start"
    /\ hOut = HeaderOutIdle
    /\ hRes = HeaderResultIdle
    /\ \/ \E k \in Kinds, a \in HeaderArgs, t \in {<<>>, <<255>>}, sl \in BOOLEAN :
            hIn = [raw |-> FALSE, kind |-> k, arg |-> a, bytes |-> t, slice |-> sl]
       \/ \E b \in RawHeaders, sl \in BOOLEAN :
            hIn = [raw |-> TRUE, kind |-> 0, arg |-> U64Zero, bytes |-> b, slice |-> sl]

ReaderOver(slice, data) == IF slice THEN SliceReader(data) ELSE IoReader(data)

WriteHeader ==
    /\ hpc = "start" /\ ~hIn.raw
    /\ hOut' = write_atom_header(hIn.kind, hIn.arg)
    /\ hpc' = "written"
    /\ UNCHANGED <<hIn, hRes, ivars, svars, tvars, avars, rvars>>

\* The header just written is read back, followed by whatever comes after it.
ReadBack ==
    /\ hpc = "written"
    /\ hRes' = read_atom_header(ReaderOver(hIn.slice, hOut.bytes \o hIn.bytes))
    /\ hpc' = "read"
    /\ UNCHANGED <<hIn, hOut, ivars, svars, tvars, avars, rvars>>

ReadRaw ==
    /\ hpc = "start" /\ hIn.raw
    /\ hRes' = read_atom_header(ReaderOver(hIn.slice, hIn.bytes))
    /\ hpc' = "rawread"
    /\ UNCHANGED <<hIn, hOut, ivars, svars, tvars, avars, rvars>>

HeaderNext == WriteHeader \/ ReadBack \/ ReadRaw

SpecHeader == HeaderInit /\ [][HeaderNext]_vars

\* C7: for every kind and 64-bit argument, write_atom_header writes between 1
\* and 10 bytes (the single byte kind << 5 | arg when arg < 16) and returns
\* their number, and read_atom_header over those bytes returns the same kind
\* and argument and consumes exactly those bytes.
C7_HeaderRoundTrip ==
    hpc = "read" =>
        /\ hOut.n = Len(hOut.bytes)
        /\ hOut.n \in 1..10
        /\ Below(hIn.arg, 4) => hOut.bytes = << (hIn.kind * 32) + BitsValue(hIn.arg, 1) >>
        /\ hRes.ok
        /\ hRes.kind = hIn.kind
        /\ hRes.arg = hIn.arg
        /\ hRes.rd.data = hIn.bytes

C7_Witness ==
    /\ hpc = "read" /\ hOut.n = 10 /\ hIn.arg[64] = 1 /\ hIn.bytes # <<>>
    /\ hRes.ok /\ hRes.arg = hIn.arg /\ hRes.rd.data = hIn.bytes

\* A raw header whose first byte and nine following bytes all carry the
\* continuation flag.
OverLongChain(b) == Len(b) >= 10 /\ b[1] \div 16 % 2 = 1 /\ \A i \in 2..10 : b[i] >= 128

\* C10: read_atom_header rejects an over-long continuation chain (the first
\* byte and all nine following bytes carry the continuation flag) with
\* InvalidAtomHeader.
C10_OverLongRejected ==
    (hpc = "rawread" /\ OverLongChain(hIn.bytes)) =>
        (~hRes.ok /\ hRes.err = "InvalidAtomHeader")
(***************************************************************************)
(* SpecInteger: an integer writer applied to a value of its argument type, *)
(* the atom read back with read_atom and the integer requested as each of  *)
(* the types a deserializer can ask for.  A value is drawn as a shape and  *)
(* an exponent (2^k, 2^k - 1, -2^k, -2^k - 1) or as a small number.        *)
(***************************************************************************)
IntegerInit ==
    /\ OthersIdle("integer")
    /\ ipc = "start"
    /\ iOut = HeaderOutIdle
    /\ iAtom = IntAtomIdle
    /\ iCast = IntCastIdle
    /\ \E w \in Writers, d \in IntValues :
        /\ InRange(d, w.signed, w.width)
        /\ iIn = [writer |-> w, value |-> d]

WriteInteger ==
    /\ ipc = "start"
    /\ iOut' = WriteWith(iIn.writer.name, ValueBytes(iIn.value))
    /\ ipc' = "written"
    /\ UNCHANGED <<iIn, iAtom, iCast, hvars, svars, tvars, avars, rvars>>

ReadInteger ==
    /\ ipc = "written"
    /\ iAtom' = read_atom(SliceReader(iOut.bytes), Huge)
    /\ ipc' = "read"
    /\ UNCHANGED <<iIn, iOut, iCast, hvars, svars, tvars, avars, rvars>>

\* deserialize_<T>: the integer of the atom is requested as T.
CastInteger ==
    /\ ipc = "read" /\ iAtom.ok /\ iAtom.atom.nucleus.tag = "Integer"
    /\ \E t \in Targets :
        iCast' = [target |-> t, res |-> CastWith(t.name, iAtom.atom.nucleus.int)]
    /\ ipc' = "cast"
    /\ UNCHANGED <<iIn, iOut, iAtom, hvars, svars, tvars, avars, rvars>>

IntegerNext == WriteInteger \/ ReadInteger \/ CastInteger

SpecInteger == IntegerInit /\ [][IntegerNext]_vars

PackedWidths == {1, 2, 3, 4, 6, 8, 16}

\* The smallest packed width whose range, in the given signedness, holds the value.
SmallestWidth(d, signed) ==
    CHOOSE w \in PackedWidths :
        /\ InRange(d, signed, w)
        /\ \A u \in PackedWidths : u < w => ~InRange(d, signed, u)

\* C6: an integer writer emits exactly one header byte followed by the
\* smallest of the widths 1, 2, 3, 4, 6, 8, 16 that holds the value in the
\* writer's signedness, and returns that total; the atom of a signed writer
\* is an Int atom, never an unsigned one.
C6_SmallestWidth ==
    ipc # "start" /\ ipc # "idle" =>
        LET w == SmallestWidth(iIn.value, iIn.writer.signed)
            kind == IF iIn.writer.signed THEN KindInt ELSE KindUInt
        IN  /\ iOut.n = 1 + w
            /\ iOut.bytes = << (kind * 32) + (w - 1) >> \o SubSeq(ValueBytes(iIn.value), 1, w)

\* The unsigned writer of 2^64 takes 17 bytes, and the signed writers of
\* -2^63 - 1 and of 2^23 take 17 and 5.
C6_Witness ==
    /\ ipc = "written"
    /\ \/ iIn.writer.name = "u128" /\ iIn.value = [shape |-> "pow", k |-> 64] /\ iOut.n = 17
       \/ iIn.writer.name = "i128" /\ iIn.value = [shape |-> "negpowm1", k |-> 63] /\ iOut.n = 17
       \/ iIn.writer.name = "i32" /\ iIn.value = [shape |-> "pow", k |-> 23] /\ iOut.n = 5

\* C5: for every integer x written by any of the integer writers and every
\* target type T, decoding as T returns x when x lies in T's range and fails
\* with ImpreciseCastWouldLoseData otherwise.
C5_CastByRange ==
    ipc = "cast" =>
        IF InRange(iIn.value, iCast.target.signed, iCast.target.width)
        THEN iCast.res.ok /\ iCast.res.v = ValueBytes(iIn.value)
        ELSE ~iCast.res.ok /\ iCast.res.err = "ImpreciseCastWouldLoseData"

(***************************************************************************)
(* Spec: sessions.  A payload is a value of one of the types below; it is  *)
(* encoded with to_vec and decoded with from_slice or from_reader (the     *)
(* tables of both sides live for one payload), or encoded with a           *)
(* serializer of the sender's persistent ser::SymbolMap and decoded with   *)
(* the receiver's persistent de::SymbolMap, payload after payload.         *)
(***************************************************************************)
\* The most elements of a sequence and entries of a map.
MaxLen == 2

\* The most payloads of a persistent session.
MaxPayloads == 2

Sym(addr, len) == [addr |-> addr, len |-> len]

U8 == TLeaf("u8")
Bool == TLeaf("bool")

\* struct Inner { <sym>: u8 }
Inner(sym) == TStruct(<<sym>>, <<U8>>)

\* enum Shapes { A, B(u8), Ab(u8, bool), Ba { a: u8 } }: the names are four
\* strings of different contents at different addresses, and the field of
\* Ba is the literal that names A.
Shapes ==
    TEnum(<< TVariant("unit_variant", Sym(2, 1), <<>>, <<>>),
             TVariant("newtype_variant", Sym(3, 1), <<>>, <<U8>>),
             TVariant("tuple_variant", Sym(0, 2), <<>>, <<U8, Bool>>),
             TVariant("struct_variant", Sym(1, 2), <<Sym(2, 1)>>, <<U8>>) >>)

Types ==
    << U8, TLeaf("i16"), Bool, TLeaf("unit"), TLeaf("str"), TLeaf("bytes"),
       TOption(U8), TOption(TOption(U8)),
       TSeq(U8), TSeqUnknown(U8),
       TMap(U8, Bool, TRUE), TMap(U8, Bool, FALSE),
       \* struct { a: u8, b: Option<u8> }
       TStruct(<<Sym(0, 1), Sym(1, 1)>>, <<U8, TOption(U8)>>),
       Shapes, TSeq(Shapes),
       \* two structs with a field "ab" each, the two literals at different addresses
       TStruct(<<Sym(1, 2), Sym(3, 1)>>, <<Inner(Sym(0, 2)), Inner(Sym(2, 2))>>),
       \* a field "ab" and a field "a" that is a slice of the same literal
       TStruct(<<Sym(1, 2), Sym(3, 1)>>, <<Inner(Sym(0, 2)), Inner(Sym(0, 1))>>),
       Inner(Sym(0, 2)), Inner(Sym(0, 1)), Inner(Sym(2, 2)),
       \* struct { a: <a sequence of unknown length> }
       TStruct(<<Sym(0, 1)>>, <<TSeqUnknown(U8)>>),
       \* maps whose values are maps, of unknown and of known length
       TMap(U8, TMap(U8, TLeaf("unit"), FALSE), FALSE),
       TMap(U8, TMap(U8, TLeaf("unit"), TRUE), FALSE),
       TMap(U8, TMap(U8, TLeaf("unit"), FALSE), TRUE) >>

\* The maps among them.
MapTypes == {i \in 1..Len(Types) : Types[i].t = "map"}

\* The types of the payloads of a persistent session.
PersistentTypes == {8, 13, 14, 16, 18, 19, 20, 21}

RECURSIVE ValuesOf(_)
RECURSIVE TuplesOf(_)
\* The tuples of values of the types Ts.
TuplesOf(Ts) ==
    IF Ts = <<>> THEN {<<>>}
    ELSE {<<h>> \o t : h \in ValuesOf(Head(Ts)), t \in TuplesOf(Tail(Ts))}

\* The entries of a map, keys and values in turn, no key twice.
EntriesOf(T) ==
    LET one == TuplesOf(T.kids)
    IN  UNION {{<<>>}, one,
               {p[1] \o p[2] : p \in {q \in one \X one : q[1][1] # q[2][1]}}}

\* The values of a type that the sessions encode.
ValuesOf(T) ==
    CASE T.t = "u8" -> {VInt("u8", 0), VInt("u8", 200)}
      [] T.t = "i16" -> {VInt("i16", -300), VInt("i16", 5)}
      [] T.t = "bool" -> {VBool(TRUE), VBool(FALSE)}
      [] T.t = "unit" -> {VUnit}
      [] T.t = "str" -> {VStr(<<>>), VStr(<<97>>)}
      [] T.t = "bytes" -> {VBytes(<<>>), VBytes(<<1, 255>>)}
      [] T.t = "option" -> {VNone} \cup {VSome(v) : v \in ValuesOf(T.kids[1])}
      [] T.t = "seq" -> UNION {{VSeq(vs) : vs \in TuplesOf(Repeat(T.kids[1], n))} : n \in 0..MaxLen}
      [] T.t = "map" -> {VMap(kvs) : kvs \in EntriesOf(T)}
      [] T.t = "struct" -> {VStruct(vs) : vs \in TuplesOf(T.kids)}
      [] T.t = "enum" ->
            UNION {{VVariant(i, vs) : vs \in TuplesOf(T.kids[i].kids)} : i \in 1..Len(T.kids)}

\* What an encoding returns: the bytes, the serializer's symbol table and
\* its write_symbol calls.
Encoded(s) ==
    [ok |-> s.ok, err |-> s.err, bytes |-> IF s.ok THEN s.output ELSE <<>>,
     symbol_map |-> s.symbol_map, log |-> s.log]

\* to_vec / to_writer: Config::default().serialize_into
to_vec(T, value) ==
    Encoded(Serialize(T, value, Serializer_new_with_symbol_map(SymbolMapRef_Ephemeral)))

\* ser::SymbolMap::serializer_for(&mut output), then value.serialize
serialize_with(map, T, value) ==
    Encoded(Serialize(T, value, Serializer_new_with_symbol_map(SymbolMapRef_Persistent(map))))

\* What a decode as the type T returned.
Decoded(T, r) ==
    [ok |-> r.ok, err |-> r.err, v |-> r.v, end_of_input |-> end_of_input(r.d), T |-> T]

\* Config::deserialize
Config_deserialize(T, serialized, allocation_budget) ==
    Let(Deserializer_new(SliceReader(serialized),
                         DeSymbols(FALSE, SymbolList_new), allocation_budget), LAMBDA d :
        IF ~d.ok THEN d
        ELSE Let(Deserialize(T, d.d), LAMBDA t :
                IF ~t.ok THEN t
                ELSE IF end_of_input(t.d) THEN t
                ELSE DeErr("TrailingBytes", t.d)))

\* Config::deserialize_from
Config_deserialize_from(T, reader, allocation_budget) ==
    Let(Deserializer_new(IoReader(reader),
                         DeSymbols(FALSE, SymbolList_new), allocation_budget), LAMBDA d :
        IF ~d.ok THEN d ELSE Deserialize(T, d.d))

from_slice(T, serialized) == Config_deserialize(T, serialized, Huge)
from_reader(T, reader) == Config_deserialize_from(T, reader, Huge)

\* de::SymbolMap::deserialize_slice: the result and the list afterwards.
deserialize_slice(list, T, slice) ==
    Let(Deserializer_new(SliceReader(slice), DeSymbols(TRUE, list), Huge), LAMBDA d :
        IF ~d.ok THEN d ELSE Deserialize(T, d.d))

Init ==
    /\ OthersIdle("session")
    /\ mode \in {"ephemeral", "persistent"}
    /\ spc = "ready"
    /\ sender = SymbolMap_new
    /\ receiver = SymbolList_new
    /\ wire = <<>>
    /\ sent = SentIdle
    /\ got = GotIdle
    /\ log = <<>>
    /\ payloads = 0
    /\ rejected = 0

NotSession == <<hvars, ivars, tvars, avars, rvars>>

\* to_vec(&value): a payload that is rejected is not sent.
Encode ==
    /\ mode = "ephemeral" /\ spc = "ready"
    /\ \E i \in 1..Len(Types) : \E v \in ValuesOf(Types[i]) :
        \E e \in {to_vec(Types[i], v)} :
            /\ sent' = [T |-> i, v |-> v, from |-> 0]
            /\ wire' = e.bytes
            /\ log' = IF e.ok THEN e.log ELSE <<>>
            /\ spc' = IF e.ok THEN "encoded" ELSE "rejected"
            /\ rejected' = IF e.ok THEN 0 ELSE 1
    /\ got' = GotIdle
    /\ payloads' = 1
    /\ UNCHANGED <<mode, sender, receiver, NotSession>>

\* from_slice::<T>(&bytes)
DecodeSlice ==
    /\ mode = "ephemeral" /\ spc = "encoded"
    /\ got' = Decoded(Types[sent.T], from_slice(Types[sent.T], wire))
    /\ spc' = "decoded"
    /\ UNCHANGED <<mode, sender, receiver, wire, sent, log, payloads, rejected, NotSession>>

\* from_reader::<T, _>(&bytes[..])
DecodeReader ==
    /\ mode = "ephemeral" /\ spc = "encoded"
    /\ got' = Decoded(Types[sent.T], from_reader(Types[sent.T], wire))
    /\ spc' = "decoded"
    /\ UNCHANGED <<mode, sender, receiver, wire, sent, log, payloads, rejected, NotSession>>

\* value.serialize(&mut sender.serializer_for(&mut bytes)?): the sender keeps
\* what the serializer registered whether or not the payload is sent.
EncodePersistent ==
    /\ mode = "persistent" /\ spc \in {"ready", "decoded"}
    /\ payloads < MaxPayloads
    /\ \E i \in PersistentTypes : \E v \in ValuesOf(Types[i]) :
        \E e \in {serialize_with(sender, Types[i], v)} :
            /\ sent' = [T |-> i, v |-> v, from |-> Len(log)]
            /\ wire' = e.bytes
            /\ sender' = e.symbol_map.map
            /\ log' = IF e.ok THEN log \o e.log ELSE log
            /\ spc' = IF e.ok THEN "encoded" ELSE "ready"
            /\ rejected' = IF e.ok THEN rejected ELSE rejected + 1
    /\ got' = GotIdle
    /\ payloads' = payloads + 1
    /\ UNCHANGED <<mode, receiver, NotSession>>

\* receiver.deserialize_slice::<T>(&bytes)
DecodePersistent ==
    /\ mode = "persistent" /\ spc = "encoded"
    /\ \E r \in {deserialize_slice(receiver, Types[sent.T], wire)} :
        /\ got' = Decoded(Types[sent.T], r)
        /\ receiver' = r.d.symbols.list
    /\ spc' = "decoded"
    /\ UNCHANGED <<mode, sender, wire, sent, log, payloads, rejected, NotSession>>

\* The primitive types a payload of Special(Unit) or of Special(None) is
\* decoded as.
Primitives ==
    {TLeaf(t) : t \in {"i8", "i16", "i32", "i64", "i128", "u8", "u16", "u32", "u64", "u128",
                       "f32", "f64", "bool", "str", "bytes"}}
        \cup {TSeq(U8), TMap(U8, Bool, TRUE)}

\* from_slice::<P>(&bytes) and from_reader::<P, _>(&bytes[..]) of the payload
\* of () or of None, for a primitive type P
DecodeAdapted ==
    /\ mode = "ephemeral" /\ spc = "encoded"
    /\ sent.v \in {VUnit, VNone}
    /\ \E P \in Primitives : \E slice \in BOOLEAN :
        got' = Decoded(P, IF slice THEN from_slice(P, wire) ELSE from_reader(P, wire))
    /\ spc' = "adapted"
    /\ UNCHANGED <<mode, sender, receiver, wire, sent, log, payloads, rejected, NotSession>>

\* Bytes that may follow a payload in the slice a decoder is handed: a
\* Special(None) and a Special(DynamicEnd).
Tails == {write_special(SpecialNone).bytes, write_special(SpecialDynamicEnd).bytes}

\* from_slice::<T>(&bytes) where bytes holds the payload and more
DecodeSliceTail ==
    /\ mode = "ephemeral" /\ spc = "encoded"
    /\ \E tail \in Tails :
        /\ wire' = wire \o tail
        /\ got' = Decoded(Types[sent.T], from_slice(Types[sent.T], wire \o tail))
    /\ spc' = "decoded_tail"
    /\ UNCHANGED <<mode, sender, receiver, sent, log, payloads, rejected, NotSession>>

\* receiver.deserialize_slice::<T>(&bytes) where bytes holds the payload and more
DecodePersistentTail ==
    /\ mode = "persistent" /\ spc = "encoded"
    /\ \E tail \in Tails : \E r \in {deserialize_slice(receiver, Types[sent.T], wire \o tail)} :
        /\ wire' = wire \o tail
        /\ got' = Decoded(Types[sent.T], r)
        /\ receiver' = r.d.symbols.list
    /\ spc' = "decoded_tail"
    /\ UNCHANGED <<mode, sender, sent, log, payloads, rejected, NotSession>>

Next ==
    \/ Encode \/ DecodeSlice \/ DecodeReader \/ EncodePersistent \/ DecodePersistent
    \/ DecodeSliceTail \/ DecodePersistentTail \/ DecodeAdapted

Spec == Init /\ [][Next]_vars

\* C1: every value the encoder accepts, encoded with to_vec and decoded as
\* its type with from_slice or from_reader, decodes successfully to an equal
\* value (nested options, every enum variant shape, sequences, maps of known
\* and of unknown length).
C1_RoundTrip ==
    (mode = "ephemeral" /\ spc = "decoded") => (got.ok /\ got.v = sent.v)

\* The strings of the sender's map in ID order.
SenderStrings ==
    [i \in 1..Len(sender.entries) |->
        EntryStr(sender, CHOOSE e \in {sender.entries[j] : j \in 1..Len(sender.entries)} :
                            e.id = i - 1)]

\* The contents of the symbols written by the calls from + 1 .. to of the log.
Contents(l, from, to) == {Content(l[j].sym) : j \in (from + 1)..to}

\* The payload sent has no symbol that an earlier payload did not have.
AllSeenBefore == Contents(log, sent.from, Len(log)) \subseteq Contents(log, 0, sent.from)

\* C2: in a persistent session that starts with empty tables and whose
\* payloads are all encoded successfully and decoded in order, every decode
\* returns the value encoded, after each payload the receiver's list holds
\* exactly the sender's symbols under the same IDs, and a payload whose
\* symbols were all seen before adds no entry to either table.
C2_PersistentSync ==
    /\ [](mode = "persistent" /\ spc = "decoded" /\ rejected = 0 =>
            /\ got.ok /\ got.v = sent.v
            /\ SymbolList_strings(receiver) = SenderStrings)
    /\ [][(mode = "persistent" /\ rejected' = 0 /\ spc' = "encoded" /\ AllSeenBefore') =>
                Len(sender'.entries) = Len(sender.entries)]_vars
    /\ [][(mode = "persistent" /\ rejected' = 0 /\ spc' = "decoded" /\ AllSeenBefore) =>
                Len(receiver'.entries) = Len(receiver.entries)]_vars

\* The first call of the log that wrote a symbol of these contents.
FirstEmission(l, c) ==
    CHOOSE j \in 1..Len(l) :
        /\ Content(l[j].sym) = c
        /\ \A m \in 1..(j - 1) : Content(l[m].sym) # c

\* C3: within a session a symbol string emitted k times is on the wire as
\* one new-symbol atom at its first emission and k - 1 references to its ID;
\* emissions are the same symbol when their contents are equal, whatever
\* their addresses.
C3_OneNewSymbol ==
    \A j \in 1..Len(log) :
        LET first == FirstEmission(log, Content(log[j].sym))
        IN  /\ log[j].new = (j = first)
            /\ log[j].id = log[first].id

(***************************************************************************)
(* SpecSymbols: one symbol table, the serializer's ephemeral map, a        *)
(* persistent ser::SymbolMap or the deserializer's symbol list (temporary  *)
(* or persistent), and the calls that register symbols in it.  tAnswers is *)
(* what each call was given and answered.                                  *)
(***************************************************************************)
\* The most calls on a table.
MaxCalls == 4

\* The strings given to SymbolMap::insert and read as symbol names: the
\* contents of the static symbols and one string that is none of them.
Names == {Content(s) : s \in Symbols} \cup {<<99>>}

SymbolsInit ==
    /\ OthersIdle("symbols")
    /\ tTable \in {"ephemeral", "persistent", "list"}
    /\ tEphemeral = <<>>
    /\ tPersistent = SymbolMap_new
    /\ tList \in IF tTable = "list"
                THEN {DeSymbols(p, SymbolList_new) : p \in BOOLEAN}
                ELSE {DeSymbols(FALSE, SymbolList_new)}
    /\ tAnswers = <<>>

Answer(str, reg) == [str |-> str, new |-> reg.new, id |-> reg.id]

NotSymbols == <<hvars, ivars, svars, avars, rvars>>

\* EphemeralSymbolMap::find_or_add(symbol)
EphemeralFindOrAdd ==
    /\ tTable = "ephemeral" /\ Len(tAnswers) < MaxCalls
    /\ \E symbol \in Symbols : \E r \in {Ephemeral_find_or_add(tEphemeral, symbol)} :
        /\ tEphemeral' = r.symbols
        /\ tAnswers' = Append(tAnswers, Answer(Content(symbol), r.reg))
    /\ UNCHANGED <<tTable, tPersistent, tList, NotSymbols>>

\* ser::SymbolMap::find_or_add(symbol)
PersistentFindOrAdd ==
    /\ tTable = "persistent" /\ Len(tAnswers) < MaxCalls
    /\ \E symbol \in Symbols : \E r \in {Persistent_find_or_add(tPersistent, symbol)} :
        /\ tPersistent' = r.map
        /\ tAnswers' = Append(tAnswers, Answer(Content(symbol), r.reg))
    /\ UNCHANGED <<tTable, tEphemeral, tList, NotSymbols>>

\* ser::SymbolMap::insert(symbol)
PersistentInsert ==
    /\ tTable = "persistent" /\ Len(tAnswers) < MaxCalls
    /\ \E str \in Names : \E r \in {find_entry_by_str(tPersistent, str)} :
        /\ tPersistent' = r.map
        /\ tAnswers' = Append(tAnswers, Answer(str, r.reg))
    /\ UNCHANGED <<tTable, tEphemeral, tList, NotSymbols>>

\* SymbolMapRef::push_borrowed / push of the name of a new-symbol atom; the
\* ID of the entry is its index in the list.
ListPush ==
    /\ tTable = "list" /\ Len(tAnswers) < MaxCalls
    /\ \E name \in Names : \E borrowed \in BOOLEAN :
        /\ tList' = DeSymbols_push(tList, name, borrowed)
        /\ tAnswers' = Append(tAnswers,
                Answer(name, RegisteredSymbol(Len(tList.list.entries), TRUE)))
    /\ UNCHANGED <<tTable, tEphemeral, tPersistent, NotSymbols>>

SymbolsNext == EphemeralFindOrAdd \/ PersistentFindOrAdd \/ PersistentInsert \/ ListPush

SpecSymbols == SymbolsInit /\ [][SymbolsNext]_vars

\* The strings of the calls that registered a symbol, in order.
Registered ==
    LET news == SelectSeq(tAnswers, LAMBDA a : a.new)
    IN  [k \in 1..Len(news) |-> news[k].str]

\* The pairs <<ID, string>> a table holds.
Bindings ==
    CASE tTable = "ephemeral" ->
            {<<tEphemeral[i].id, Content(tEphemeral[i].sym)>> : i \in 1..Len(tEphemeral)}
      [] tTable = "persistent" ->
            {<<tPersistent.entries[i].id, EntryStr(tPersistent, tPersistent.entries[i])>> :
                i \in 1..Len(tPersistent.entries)}
      [] tTable = "list" ->
            {<<i - 1, resolve_entry(tList.list, tList.list.entries[i])>> :
                i \in 1..Len(tList.list.entries)}
      [] OTHER -> {}

\* C4: in each of the three tables the symbols registered so far have the
\* IDs 0..n-1 in the order of their registration, every call that registers
\* one is answered with the next ID, and a binding of an ID to a string,
\* once made, is in the table ever after: the tables grow by appending.
C4_DenseAppendOnly ==
    /\ [](/\ Bindings = {<<k - 1, Registered[k]>> : k \in 1..Len(Registered)}
          /\ \A j \in 1..Len(tAnswers) :
                tAnswers[j].new =>
                    tAnswers[j].id = Cardinality({m \in 1..(j - 1) : tAnswers[m].new}))
    /\ [][Bindings \subseteq Bindings']_vars

\* A persistent map with three symbols whose entries, sorted by content, are
\* not in ID order, after a call that found its symbol registered.
C4_Witness ==
    /\ tTable = "persistent"
    /\ Len(Registered) = 3
    /\ \E j \in 1..Len(tAnswers) : ~tAnswers[j].new
    /\ \E i \in 1..Len(tPersistent.entries) : tPersistent.entries[i].id # i - 1

(***************************************************************************)
(* SpecAtoms: a deserializer with an allocation budget reads the atoms of  *)
(* a payload one after the other with Deserializer::read_atom.  aRead is,  *)
(* for each atom read, the budget before and after and the outcome.        *)
(***************************************************************************)
\* The most atoms of a payload.
MaxAtoms == 2

\* The atoms a payload is made of: kind and wire width or length, or which
\* Special it is.
WireAtom(kind, size) == [kind |-> kind, size |-> size]

AtomMenu ==
    {WireAtom(KindInt, w) : w \in {1, 2, 3, 4, 6, 8, 16}}
        \cup {WireAtom(KindUInt, 3), WireAtom(KindFloat, 4), WireAtom(KindFloat, 8),
              WireAtom(KindBytes, 0), WireAtom(KindBytes, 3),
              WireAtom(KindSpecial, SpecialUnit)}

\* The bytes of an atom: its header and its payload.
WireBytes(a) ==
    CASE a.kind \in {KindInt, KindUInt, KindFloat} ->
            write_atom_header(a.kind, U64(a.size - 1)).bytes \o Repeat(1, a.size)
      [] a.kind = KindBytes -> write_bytes(Repeat(1, a.size)).bytes
      [] a.kind = KindSymbol ->
            write_atom_header(KindSymbol, U64(2 * a.size)).bytes \o Repeat(97, a.size)
      [] OTHER -> write_special(a.size).bytes

RECURSIVE PayloadBytes(_)
PayloadBytes(atoms) ==
    IF atoms = <<>> THEN <<>> ELSE WireBytes(Head(atoms)) \o PayloadBytes(Tail(atoms))

\* What an atom costs: the length of a Bytes atom and the in-memory size of
\* a number of the given wire width.
Charge(a) ==
    CASE a.kind = KindBytes -> a.size
      [] a.kind \in {KindInt, KindUInt, KindFloat} ->
            (CASE a.size = 1 -> 1
               [] a.size = 2 -> 2
               [] a.size \in {3, 4} -> 4
               [] a.size \in {6, 8} -> 8
               [] a.size = 16 -> 16)
      [] OTHER -> 0

RECURSIVE TotalCharge(_)
TotalCharge(atoms) == IF atoms = <<>> THEN 0 ELSE Charge(Head(atoms)) + TotalCharge(Tail(atoms))

Payloads == UNION {[1..n -> AtomMenu] : n \in 0..MaxAtoms}

\* The budgets tried for a payload whose charges total c.
Budgets(c) == {b \in {0, 1, c - 1, c, c + 1} : b >= 0}

AtomsInit ==
    /\ OthersIdle("atoms")
    /\ apc = "ready"
    /\ aIn \in {[atoms |-> p, budget |-> b, slice |-> sl] :
                    p \in Payloads, b \in 0..(2 + (16 * MaxAtoms)), sl \in BOOLEAN}
    /\ aIn.budget \in Budgets(TotalCharge(aIn.atoms))
    /\ aD = DeserializerIdle
    /\ aRead = <<>>
    /\ aErr = ""

NotAtoms == <<hvars, ivars, svars, tvars, rvars>>

\* Deserializer::from_slice / from_read with the budget
BeginDecode ==
    /\ apc = "ready"
    /\ \E r \in {Deserializer_new(
                    IF aIn.slice
                    THEN SliceReader(write_header(CURRENT_VERSION).bytes \o PayloadBytes(aIn.atoms))
                    ELSE IoReader(write_header(CURRENT_VERSION).bytes \o PayloadBytes(aIn.atoms)),
                    DeSymbols(FALSE, SymbolList_new), aIn.budget)} :
        /\ aD' = r.d
        /\ aErr' = r.err
        /\ apc' = IF ~r.ok THEN "failed" ELSE IF end_of_input(r.d) THEN "done" ELSE "reading"
    /\ UNCHANGED <<aIn, aRead, NotAtoms>>

\* Deserializer::read_atom
ReadAtom ==
    /\ apc = "reading"
    /\ \E r \in {De_read_atom(aD)} :
        /\ aD' = r.d
        /\ aErr' = r.err
        /\ aRead' = Append(aRead, [before |-> aD.remaining_budget,
                                   after |-> r.d.remaining_budget,
                                   ok |-> r.ok, err |-> r.err,
                                   op |-> "read_atom", atom |-> r.atom])
        /\ apc' = IF ~r.ok THEN "failed" ELSE IF end_of_input(r.d) THEN "done" ELSE "reading"
    /\ UNCHANGED <<aIn, NotAtoms>>

AtomsNext == BeginDecode \/ ReadAtom

SpecAtoms == AtomsInit /\ [][AtomsNext]_vars

\* C8: each atom read is charged the length of a Bytes atom and the
\* in-memory size (1, 2, 4, 4, 8, 8, 16 for the wire widths 1, 2, 3, 4, 6, 8,
\* 16) of an Int, UInt or Float atom; the remaining budget never increases;
\* a read fails with TooManyBytesRead exactly when the charge is more than
\* what remains; so a payload whose charges total C is decoded exactly when
\* the budget is at least C.
C8_BudgetCharged ==
    /\ \A k \in 1..Len(aRead) :
        LET r == aRead[k]
            c == Charge(aIn.atoms[k])
        IN  /\ r.before = IF k = 1 THEN aIn.budget ELSE aRead[k - 1].after
            /\ r.after <= r.before
            /\ r.ok => r.after = r.before - c
            /\ r.ok = (c <= r.before)
            /\ ~r.ok => r.err = "TooManyBytesRead"
    /\ apc \in {"reading", "done", "failed"} =>
            aD.remaining_budget =
                IF aRead = <<>> THEN aIn.budget ELSE aRead[Len(aRead)].after
    /\ apc = "done" =>
            /\ Len(aRead) = Len(aIn.atoms)
            /\ aIn.budget >= TotalCharge(aIn.atoms)
            /\ aD.remaining_budget = aIn.budget - TotalCharge(aIn.atoms)
    /\ apc = "failed" =>
            /\ aIn.budget < TotalCharge(aIn.atoms)
            /\ aErr = "TooManyBytesRead"

\* A payload of an integer of three bytes on the wire and another number,
\* read with one byte less than its charges: the first atom is charged four
\* bytes and the second fails.
C8_Witness ==
    /\ apc = "failed"
    /\ Len(aIn.atoms) = 2
    /\ aIn.atoms[1] = WireAtom(KindInt, 3)
    /\ aIn.budget = TotalCharge(aIn.atoms) - 1
    /\ Len(aRead) = 2
    /\ aRead[1].ok /\ aRead[1].after = aIn.budget - 4
    /\ ~aRead[2].ok

(***************************************************************************)
(* SpecReader: the reads of format.rs on a SliceReader or an IoReader that *)
(* holds some part of an encoded payload, or a file header of any bytes    *)
(* followed by an atom.  rOp is the last read, the bytes it asked for, the *)
(* bytes that were left and the first four of them; rRes is its outcome    *)
(* and the bytes it consumed.                                              *)
(***************************************************************************)
\* The longest buffered read.
MaxRead == 3

\* The payload the readers hold a part of: the header, a u16 and two bytes.
Stream ==
    write_header(CURRENT_VERSION).bytes \o WireBytes(WireAtom(KindUInt, 2))
        \o WireBytes(WireAtom(KindBytes, 2))

\* The magic of a file header, and the bytes a header may hold in its place:
\* each magic byte, a byte that lacks its bits, a byte that has all bits.
Magic == <<80, 111, 116>>
MagicBytes(i) == {Magic[i], 0, 255}
Versions == {CURRENT_VERSION, CURRENT_VERSION + 1, 255}

\* File headers of any magic and version, each followed by a one-byte atom.
Headers ==
    {<<b1, b2, b3, v>> \o WireBytes(WireAtom(KindUInt, 1)) :
        b1 \in MagicBytes(1), b2 \in MagicBytes(2), b3 \in MagicBytes(3), v \in Versions}

ReaderInputs ==
    {SubSeq(Stream, i, j) : i \in 1..(Len(Stream) + 1), j \in 0..Len(Stream)} \cup Headers

ReaderInit ==
    /\ OthersIdle("reader")
    /\ rpc = "ready"
    /\ \E data \in ReaderInputs : \E slice \in BOOLEAN :
        rRd = IF slice THEN SliceReader(data) ELSE IoReader(data)
    /\ rOp = ReadOpIdle
    /\ rRes = ReadResultIdle

NotReader == <<hvars, ivars, svars, tvars, avars>>

\* The read `name` asked for n bytes and returned r.
Performed(name, n, r) ==
    /\ rpc' = "read"
    /\ rOp' = [name |-> name, n |-> n, left |-> Len(rRd.data),
                front |-> SubSeq(rRd.data, 1, Min(4, Len(rRd.data)))]
    /\ rRes' = [ok |-> r.ok, err |-> r.err, consumed |-> Len(rRd.data) - Len(r.rd.data)]
    /\ rRd' = r.rd
    /\ UNCHANGED NotReader

\* The bytes an atom header at the front of data occupies, as a reader that
\* stops when its source runs out finds it: one more than there are when the
\* header is cut short.
HeaderBytes(data) ==
    Let(read_atom_header(IoReader(data)), LAMBDA r :
        IF r.ok THEN Len(data) - Len(r.rd.data) ELSE Len(data) + 1)

\* format::read_header: reader.read_u32()
ReadHeader == Performed("header", 4, read_header(rRd))

\* format::read_atom_header: reader.read_u8() for each byte
ReadAtomHeader == Performed("atom_header", HeaderBytes(rRd.data), read_atom_header(rRd))

\* Integer::read_from and Float::read_from: reader.read_u16() and the like
ReadNumeric ==
    \/ \E w \in {1, 2, 3, 4, 6, 8, 16} :
            Performed("integer", w, Integer_read_from(KindUInt, w, rRd))
    \/ \E w \in {2, 4, 8} : Performed("float", w, Float_read_from(w, rRd))

\* reader.buffered_read_bytes(length, scratch): Bytes contents, symbol names
BufferedRead ==
    \E length \in 0..MaxRead : Performed("buffered", length, buffered_read_bytes(rRd, length))

\* Deserializer::new on the reader: the header is read and its version tested.
NewDeserializer ==
    \E r \in {Deserializer_new(rRd, DeSymbols(FALSE, SymbolList_new), 0)} :
        Performed("new", 4, [ok |-> r.ok, err |-> r.err, rd |-> r.d.input])

ReaderNext == ReadHeader \/ ReadAtomHeader \/ ReadNumeric \/ BufferedRead \/ NewDeserializer

SpecReader == ReaderInit /\ [][ReaderNext]_vars

\* C9: a read of N bytes from a reader with fewer than N bytes left fails
\* with Eof, whether it is a fixed-width read (file header, atom header,
\* numeric payload) or a buffered one (Bytes contents, symbol names), and a
\* read of N bytes that succeeds has consumed exactly N bytes.
C9_ShortReadIsEof ==
    rpc = "read" =>
        /\ rOp.n > rOp.left => (~rRes.ok /\ rRes.err = "Eof")
        /\ rRes.ok => rRes.consumed = rOp.n

(***************************************************************************)
(* SpecMaps: a persistent ser::SymbolMap and the persistent de::SymbolMap   *)
(* of its peer register the same symbols in the same order; the two maps   *)
(* are serialized with to_vec, restored from what was written with         *)
(* from_slice, and a later payload is encoded and decoded with the         *)
(* original maps and with the restored ones.  tAnswers is what was         *)
(* written, then the original maps, then the outcome for the payload.      *)
(***************************************************************************)
\* The most symbols the maps hold when they are serialized.
MaxMapLen == 2

\* SymbolIdSorter::next from position p of the scan on: the index found and
\* the new lower bound of the scans to come.
RECURSIVE SorterScan(_, _, _, _, _)
SorterScan(ids, p, min, id, encountered_greater) ==
    IF p >= Len(ids) THEN [found |-> FALSE, index |-> 0, min |-> min]
    ELSE CASE ids[p + 1] = id ->
                [found |-> TRUE, index |-> p, min |-> IF encountered_greater THEN min ELSE p + 1]
           [] ids[p + 1] > id -> SorterScan(ids, p + 1, min, id, TRUE)
           [] OTHER ->
                SorterScan(ids, p + 1, IF encountered_greater THEN min ELSE p, id,
                           encountered_greater)

RECURSIVE SorterRun(_, _, _)
SorterRun(ids, min, id) ==
    Let(SorterScan(ids, min, min, id, FALSE), LAMBDA n :
        IF n.found THEN <<n.index>> \o SorterRun(ids, n.min, id + 1) ELSE <<>>)

SymbolIdSorter_in_storage_order(ids) == [i \in 1..Len(ids) |-> i - 1]

\* SymbolIdSorter::new(source, map) run to its end: the indices it yields.
SymbolIdSorter(ids) == SorterRun(ids, 0, 0)

\* impl Serialize for ser::SymbolMap
ser_SymbolMap_serialize(map, s) ==
    Let(SymbolIdSorter([i \in 1..Len(map.entries) |-> map.entries[i].id]), LAMBDA order :
        SerializeElements(TLeaf("str"),
            [k \in 1..Len(order) |-> VStr(EntryStr(map, map.entries[order[k] + 1]))], 1,
            serialize_seq(s, Len(map.entries))))

\* impl Serialize for de::SymbolMap
de_SymbolMap_serialize(list, s) ==
    SerializeElements(TLeaf("str"),
        [k \in 1..Len(list.entries) |-> VStr(resolve_entry(list, list.entries[k]))], 1,
        serialize_seq(s, Len(list.entries)))

\* The stable sort of entries by content: ser.rs 724-725.
RECURSIVE SortedByContent(_, _, _)
SortedByContent(symbols, entries, sorted) ==
    IF entries = <<>> THEN sorted
    ELSE LET e == Head(entries)
             str == SubSeq(symbols, e.start + 1, e.end)
             position == Cardinality({i \in 1..Len(sorted) :
                            ~LexLess(str, SubSeq(symbols, sorted[i].start + 1, sorted[i].end))})
         IN  SortedByContent(symbols, Tail(entries), InsertAt(sorted, position, e))

\* ser::SymbolMapVisitor::visit_seq over the strings of the sequence
RECURSIVE ser_visit_seq(_, _, _)
ser_visit_seq(strs, id, map) ==
    IF strs = <<>>
    THEN [map EXCEPT !.entries = SortedByContent(map.symbols, map.entries, <<>>)]
    ELSE Let(Len(map.symbols), LAMBDA start :
            ser_visit_seq(Tail(strs), id + 1,
                [map EXCEPT !.symbols = @ \o Head(strs).b,
                            !.entries = Append(@, [start |-> start,
                                                   end |-> start + Len(Head(strs).b),
                                                   id |-> id])]))

\* de::SymbolMapVisitor::visit_seq over the strings of the sequence
RECURSIVE de_visit_seq(_, _)
de_visit_seq(strs, map) ==
    IF strs = <<>> THEN map ELSE de_visit_seq(Tail(strs), SymbolList_push(map, Head(strs).b))

\* from_slice::<ser::SymbolMap> and from_slice::<de::SymbolMap>
Restored(serialized) ==
    Let(from_slice(TSeq(TLeaf("str")), serialized), LAMBDA r :
        [ok |-> r.ok,
         sender |-> IF r.ok THEN ser_visit_seq(r.v.kids, 0, SymbolMap_new) ELSE SymbolMap_new,
         receiver |-> IF r.ok THEN de_visit_seq(r.v.kids, SymbolList_new) ELSE SymbolList_new])

\* The types of the payloads encoded after the maps were restored.
LaterTypes == {14, 17, 18, 19}

MapsInit ==
    /\ OthersIdle("symbols")
    /\ tTable = "maps"
    /\ tEphemeral = <<>>
    /\ tPersistent = SymbolMap_new
    /\ tList = DeSymbols(TRUE, SymbolList_new)
    /\ tAnswers = <<>>

\* The encoder registered a symbol; its peer pushes the name of the
\* new-symbol atom it is sent.
Registers(r, str) ==
    /\ tPersistent' = r.map
    /\ tList' = IF r.reg.new THEN DeSymbols_push(tList, str, FALSE) ELSE tList
    /\ UNCHANGED <<tTable, tEphemeral, tAnswers, NotSymbols>>

\* Serializer::write_symbol with the persistent map
MapsFindOrAdd ==
    /\ tTable = "maps" /\ Len(tPersistent.entries) < MaxMapLen
    /\ \E symbol \in Symbols : Registers(Persistent_find_or_add(tPersistent, symbol), Content(symbol))

\* ser::SymbolMap::insert
MapsInsert ==
    /\ tTable = "maps" /\ Len(tPersistent.entries) < MaxMapLen
    /\ \E str \in Names : Registers(find_entry_by_str(tPersistent, str), str)

\* to_vec(&sender) and to_vec(&receiver)
SerializeMaps ==
    /\ tTable = "maps"
    /\ tAnswers' =
        <<[sender |-> Encoded(ser_SymbolMap_serialize(tPersistent,
                        Serializer_new_with_symbol_map(SymbolMapRef_Ephemeral))).bytes,
           receiver |-> Encoded(de_SymbolMap_serialize(tList.list,
                        Serializer_new_with_symbol_map(SymbolMapRef_Ephemeral))).bytes]>>
    /\ tTable' = "serialized"
    /\ UNCHANGED <<tEphemeral, tPersistent, tList, NotSymbols>>

\* from_slice::<ser::SymbolMap>(&serialized_sender) and
\* from_slice::<de::SymbolMap>(&serialized_receiver)
RestoreMaps ==
    /\ tTable = "serialized"
    /\ \E s \in {Restored(tAnswers[1].sender)} : \E r \in {Restored(tAnswers[1].receiver)} :
        /\ tPersistent' = s.sender
        /\ tList' = DeSymbols(TRUE, r.receiver)
        /\ tAnswers' = Append(tAnswers, [sender |-> tPersistent, receiver |-> tList,
                                         ok |-> s.ok /\ r.ok])
    /\ tTable' = "restored"
    /\ UNCHANGED <<tEphemeral, NotSymbols>>

\* A payload is encoded with the original sender and with the restored one,
\* and what the original sender wrote is decoded with the original receiver
\* and with the restored one.
EncodeLater ==
    /\ tTable = "restored"
    /\ \E i \in LaterTypes : \E v \in ValuesOf(Types[i]) :
        \E e0 \in {serialize_with(tAnswers[2].sender, Types[i], v)} :
        \E e1 \in {serialize_with(tPersistent, Types[i], v)} :
        \E d0 \in {deserialize_slice(tAnswers[2].receiver.list, Types[i], e0.bytes)} :
        \E d1 \in {deserialize_slice(tList.list, Types[i], e0.bytes)} :
            /\ tPersistent' = e1.symbol_map.map
            /\ tList' = d1.d.symbols
            /\ tAnswers' =
                << tAnswers[1],
                   [sender |-> e0.symbol_map.map, receiver |-> d0.d.symbols, ok |-> tAnswers[2].ok],
                   [T |-> i, v |-> v, original |-> e0.bytes, restored |-> e1.bytes,
                    got0 |-> Decoded(Types[i], d0), got1 |-> Decoded(Types[i], d1)] >>
    /\ tTable' = "encoded"
    /\ UNCHANGED <<tEphemeral, NotSymbols>>

MapsNext == MapsFindOrAdd \/ MapsInsert \/ SerializeMaps \/ RestoreMaps \/ EncodeLater

SpecMaps == MapsInit /\ [][MapsNext]_vars

\* The strings of a ser::SymbolMap in ascending ID order.
StringsById(map) ==
    [i \in 1..Len(map.entries) |->
        EntryStr(map, CHOOSE e \in {map.entries[j] : j \in 1..Len(map.entries)} : e.id = i - 1)]

\* A Sequence atom of the strings, each a Bytes atom.
RECURSIVE StringAtoms(_)
StringAtoms(strs) ==
    IF strs = <<>> THEN <<>> ELSE write_bytes(Head(strs)).bytes \o StringAtoms(Tail(strs))
SequenceOf(strs) ==
    write_header(CURRENT_VERSION).bytes
        \o write_atom_header(KindSequence, U64(Len(strs))).bytes \o StringAtoms(strs)

\* C18: an encoder-side symbol map and a decoder-side symbol map that have
\* registered the same symbols in the same order serialize to byte-identical
\* output, a Sequence of the symbol strings in ascending ID order, whatever
\* the order in which each map stores its entries.
C18_SameSerialization ==
    (tTable = "serialized" /\ StringsById(tPersistent) = SymbolList_strings(tList.list)) =>
        /\ tAnswers[1].sender = tAnswers[1].receiver
        /\ tAnswers[1].sender = SequenceOf(StringsById(tPersistent))

\* Maps of two symbols that the encoder stores with the later one first.
C18_Witness ==
    /\ tTable = "serialized"
    /\ Len(tPersistent.entries) = 2
    /\ tPersistent.entries[1].id = 1
    /\ StringsById(tPersistent) = SymbolList_strings(tList.list)
    /\ tAnswers[1].sender = tAnswers[1].receiver

\* C19: deserializing a serialized symbol map gives each string the ID equal
\* to its position in the sequence, so an encoder map restored from the
\* serialized form of a map encodes every later payload to the bytes the
\* original map produces, and a restored decoder map decodes those payloads
\* to the values the original decoder map gives.
C19_RestoredMapsAgree ==
    /\ tTable = "restored" =>
            /\ tAnswers[2].ok
            /\ StringsById(tPersistent) = StringsById(tAnswers[2].sender)
            /\ SymbolList_strings(tList.list) = SymbolList_strings(tAnswers[2].receiver.list)
    /\ tTable = "encoded" =>
            /\ tAnswers[3].restored = tAnswers[3].original
            /\ tAnswers[3].got1 = tAnswers[3].got0

(***************************************************************************)
(* SymbolMap::populate_from (ser.rs 663-670) and SymbolMapPopulator        *)
(* (ser.rs 746-1030): a serde Serializer that holds nothing but the map.   *)
(***************************************************************************)
RECURSIVE Populate(_, _, _)
RECURSIVE PopulateElements(_, _, _, _)
RECURSIVE PopulateEntries(_, _, _, _)
RECURSIVE PopulateFields(_, _, _, _, _)
RECURSIVE PopulateElementsOf(_, _, _)

\* SerializeTuple / SerializeTupleVariant::serialize_field for each field.
PopulateElementsOf(Ts, vs, map) ==
    IF vs = <<>> THEN map
    ELSE PopulateElementsOf(Tail(Ts), Tail(vs), Populate(Head(Ts), Head(vs), map))

\* SerializeSeq::serialize_element for each element from the i-th on.
PopulateElements(T, vs, i, map) ==
    IF i > Len(vs) THEN map ELSE PopulateElements(T, vs, i + 1, Populate(T, vs[i], map))

\* SerializeMap::serialize_key / serialize_value for each entry.
PopulateEntries(T, kvs, i, map) ==
    IF i > Len(kvs) THEN map
    ELSE PopulateEntries(T, kvs, i + 1, Populate(T.kids[2 - (i % 2)], kvs[i], map))

\* SerializeStruct / SerializeStructVariant::serialize_field for each field:
\* self.0.find_or_add(key), then the value.
PopulateFields(syms, first, Ts, vs, map) ==
    IF vs = <<>> THEN map
    ELSE PopulateFields(syms, first + 1, Tail(Ts), Tail(vs),
            Populate(Head(Ts), Head(vs), Persistent_find_or_add(map, syms[first]).map))

\* value.serialize(&mut SymbolMapPopulator(map)): the map afterwards.  No
\* method of the populator returns an error.
Populate(T, v, map) ==
    CASE T.t = "option" -> (IF v.t = "none" THEN map ELSE Populate(T.kids[1], v.kids[1], map))
      [] T.t = "seq" -> PopulateElements(T.kids[1], v.kids, 1, map)
      [] T.t = "map" -> PopulateEntries(T, v.kids, 1, map)
      [] T.t = "struct" -> PopulateFields(T.syms, 1, T.kids, v.kids, map)
      [] T.t = "enum" ->
            Let(T.kids[v.n], LAMBDA V :
            Let(Persistent_find_or_add(map, V.syms[1]).map, LAMBDA named :
                CASE V.t = "unit_variant" -> named
                  [] V.t = "newtype_variant" -> Populate(V.kids[1], v.kids[1], named)
                  [] V.t = "tuple_variant" -> PopulateElementsOf(V.kids, v.kids, named)
                  [] V.t = "struct_variant" -> PopulateFields(V.syms, 2, V.kids, v.kids, named)))
      [] OTHER -> map

\* SymbolMap::populate_from
populate_from(map, T, value) ==
    Let(Len(map.entries), LAMBDA start_count :
    Let(Populate(T, value, map), LAMBDA populated :
        [ok |-> TRUE, count |-> Len(populated.entries) - start_count, map |-> populated]))

\* The types of the values a map is populated from.
PopulateTypes == {7, 13, 14, 16, 17, 21}

PopulateInit ==
    /\ OthersIdle("symbols")
    /\ tTable = "new"
    /\ tEphemeral = <<>>
    /\ tPersistent = SymbolMap_new
    /\ tList = DeSymbols(TRUE, SymbolList_new)
    /\ tAnswers = <<>>

\* The answer to the last call.
LastAnswer == tAnswers[Len(tAnswers)]

\* map.populate_from(&value), on a new map and on a populated one
PopulateFrom ==
    /\ tTable \in {"new", "populated"}
    /\ \E i \in PopulateTypes : \E v \in ValuesOf(Types[i]) :
        \E r \in {populate_from(tPersistent, Types[i], v)} :
            /\ tPersistent' = r.map
            /\ tAnswers' = (IF tAnswers = <<>> THEN <<>> ELSE <<LastAnswer>>)
                            \o <<[T |-> i, v |-> v, before |-> tPersistent,
                                  ok |-> r.ok, count |-> r.count]>>
    /\ tTable' = (IF tTable = "new" THEN "populated" ELSE "populated_again")
    /\ UNCHANGED <<tEphemeral, tList, NotSymbols>>

\* The value the map was last populated from is encoded with the map.
EncodePopulated ==
    /\ tTable \in {"populated", "populated_again"}
    /\ \E e \in {serialize_with(tPersistent, Types[LastAnswer.T], LastAnswer.v)} :
        /\ tPersistent' = e.symbol_map.map
        /\ tAnswers' = <<LastAnswer,
                         [T |-> LastAnswer.T, v |-> LastAnswer.v, before |-> tPersistent,
                          ok |-> e.ok, log |-> e.log]>>
    /\ tTable' = "populated_encoded"
    /\ UNCHANGED <<tEphemeral, tList, NotSymbols>>

PopulateNext == PopulateFrom \/ EncodePopulated

SpecPopulate == PopulateInit /\ [][PopulateNext]_vars

\* The strings a ser::SymbolMap holds.
StringsOf(map) == {EntryStr(map, map.entries[i]) : i \in 1..Len(map.entries)}

\* The names the encoding of a value writes as symbols.
NamesOf(T, v) ==
    Let(to_vec(T, v).log, LAMBDA calls : {Content(calls[k].sym) : k \in 1..Len(calls)})

\* C20: populate_from(v) registers every struct field name and enum variant
\* name that encoding v would emit as a symbol and returns the number of
\* symbols it newly added; calling it again with the same value returns 0,
\* and encoding v afterwards with that map emits only symbol references,
\* never a new-symbol atom.  It changes nothing but the map.
C20_PopulateFrom ==
    /\ tTable \in {"populated", "populated_again"} =>
            /\ LastAnswer.ok
            /\ NamesOf(Types[LastAnswer.T], LastAnswer.v) \subseteq StringsOf(tPersistent)
            /\ LastAnswer.count
                    = Cardinality(StringsOf(tPersistent) \ StringsOf(LastAnswer.before))
            /\ StringsOf(LastAnswer.before) \subseteq StringsOf(tPersistent)
    /\ (tTable = "populated_again" /\ tAnswers[1].T = tAnswers[2].T
                                   /\ tAnswers[1].v = tAnswers[2].v) =>
            (tAnswers[2].count = 0 /\ tPersistent = tAnswers[2].before)
    /\ tTable = "populated_encoded" =>
            /\ \A k \in 1..Len(tAnswers[2].log) : ~tAnswers[2].log[k].new
            /\ StringsOf(tPersistent) = StringsOf(tAnswers[2].before)
    /\ tList = DeSymbols(TRUE, SymbolList_new)

\* The zero or empty value of a primitive type.
ZeroOf(P) ==
    CASE P.t \in {"f32", "f64"} -> VFloat(P.t, 0, <<>>)
      [] P.t = "bool" -> VBool(FALSE)
      [] P.t = "str" -> VStr(<<>>)
      [] P.t = "bytes" -> VBytes(<<>>)
      [] P.t = "seq" -> VSeq(<<>>)
      [] P.t = "map" -> VMap(<<>>)
      [] OTHER -> VInt(P.t, 0)

\* C17: decoding a payload that consists of Special(Unit), and one that
\* consists of Special(None), succeeds for every primitive target and yields
\* the zero or empty value of the target: 0 for every integer width and for
\* floats, false for bool, the empty string, empty bytes, and an empty
\* sequence or map.
C17_UnitAdaptations ==
    spc = "adapted" => (got.ok /\ got.v = ZeroOf(got.T) /\ got.end_of_input)

\* The payload of None was decoded as an f64.
C17_Witness ==
    /\ spc = "adapted" /\ got.ok
    /\ sent.v = VNone /\ got.T = TLeaf("f64") /\ got.v = VFloat("f64", 0, <<>>)

(***************************************************************************)
(* SpecOption: a deserializer reads a payload of atoms with                *)
(* deserialize_option, whose visitor is handed None or Some, and with      *)
(* read_atom, the first read of the decoder of a value.  aRead is the      *)
(* outcome of each of them.                                                *)
(***************************************************************************)
\* The most calls of deserialize_option on a payload.
MaxOptions == 3

OptionMenu ==
    {WireAtom(KindSpecial, SpecialNone), WireAtom(KindSpecial, SpecialUnit),
     WireAtom(KindUInt, 1), WireAtom(KindBytes, 3)}

OptionInit ==
    /\ OthersIdle("atoms")
    /\ apc = "ready"
    /\ aIn \in {[atoms |-> p, budget |-> b, slice |-> sl] :
                    p \in UNION {[1..n -> OptionMenu] : n \in 0..MaxAtoms},
                    b \in {0, 16 * MaxAtoms}, sl \in BOOLEAN}
    /\ aD = DeserializerIdle
    /\ aRead = <<>>
    /\ aErr = ""

\* Deserializer::deserialize_option up to visit_none or visit_some
DeserializeOption ==
    /\ apc = "reading"
    /\ Cardinality({k \in 1..Len(aRead) : aRead[k].op = "option"}) < MaxOptions
    /\ \E r \in {deserialize_option(aD)} :
        /\ aD' = r.d
        /\ aErr' = r.err
        /\ aRead' = Append(aRead, [before |-> aD.remaining_budget,
                                   after |-> r.d.remaining_budget,
                                   ok |-> r.ok, err |-> r.err,
                                   op |-> "option", some |-> r.v.t = "some"])
        /\ apc' = IF ~r.ok THEN "failed" ELSE IF end_of_input(r.d) THEN "done" ELSE "reading"
    /\ UNCHANGED <<aIn, NotAtoms>>

OptionNext == BeginDecode \/ ReadAtom \/ DeserializeOption

SpecOption == OptionInit /\ [][OptionNext]_vars

\* The atoms of the payload that the first k calls consumed.
RECURSIVE Consumed(_)
Consumed(k) ==
    IF k = 0 THEN 0
    ELSE Consumed(k - 1) +
            (IF aRead[k].ok /\ (aRead[k].op = "read_atom" \/ ~aRead[k].some) THEN 1 ELSE 0)

\* The atom is the one written as w.
IsWireAtom(atom, w) ==
    /\ atom.kind = w.kind
    /\ atom.arg = U64(IF w.kind \in {KindInt, KindUInt, KindFloat} THEN w.size - 1 ELSE w.size)

IsNoneAtom(w) == w = WireAtom(KindSpecial, SpecialNone)

\* C16: deserialize_option looks at exactly one upcoming atom: if it is
\* Special(None) the atom is consumed and None is visited; otherwise no atom
\* is consumed before Some is visited, and the decoder of the inner value
\* reads that same atom next.
C16_OptionPeeksOne ==
    /\ \A k \in 1..Len(aRead) :
        LET r == aRead[k]
            upcoming == aIn.atoms[Consumed(k - 1) + 1]
        IN  r.ok =>
                IF r.op = "option" THEN r.some = ~IsNoneAtom(upcoming)
                ELSE IsWireAtom(r.atom, upcoming)
    /\ apc \in {"reading", "done"} =>
            /\ Len(aD.peeked_atom) =
                    IF aRead # <<>> /\ aRead[Len(aRead)].op = "option" /\ aRead[Len(aRead)].some
                    THEN 1 ELSE 0
            /\ aD.input.data =
                    PayloadBytes(SubSeq(aIn.atoms, Consumed(Len(aRead)) + Len(aD.peeked_atom) + 1,
                                        Len(aIn.atoms)))

\* Some was visited for a payload of a number, and the next read was of the
\* number; then None was visited for the Special(None) after it.
C16_Witness ==
    /\ Len(aRead) = 3
    /\ aIn.atoms = <<WireAtom(KindUInt, 1), WireAtom(KindSpecial, SpecialNone)>>
    /\ aRead[1].op = "option" /\ aRead[1].ok /\ aRead[1].some
    /\ aRead[2].op = "read_atom" /\ aRead[2].ok /\ aRead[2].atom.kind = KindUInt
    /\ aRead[3].op = "option" /\ aRead[3].ok /\ ~aRead[3].some
    /\ apc = "done"

\* The two forms of a map on the wire: Map(n) and the 2n values of its
\* entries, or Special(DynamicMap), the values and one Special(DynamicEnd).
RECURSIVE MapForm(_, _)
RECURSIVE EntryForms(_, _, _)
EntryForms(T, kvs, i) ==
    IF i > Len(kvs) THEN <<>>
    ELSE MapForm(T.kids[IF i % 2 = 1 THEN 1 ELSE 2], kvs[i]) \o EntryForms(T, kvs, i + 1)

MapForm(T, v) ==
    IF T.t # "map"
    THEN Serialize(T, v, [Serializer_new_with_symbol_map(SymbolMapRef_Ephemeral)
                            EXCEPT !.output = <<>>]).output
    ELSE IF T.known
    THEN write_atom_header(KindMap, U64(Len(v.kids) \div 2)).bytes \o EntryForms(T, v.kids, 1)
    ELSE write_special(SpecialDynamicMap).bytes \o EntryForms(T, v.kids, 1)
            \o write_special(SpecialDynamicEnd).bytes

\* C15: a map of known length n is written as Map(n) and the 2n values of
\* its entries, with no end marker; a map of unknown length as
\* Special(DynamicMap), the values, and one Special(DynamicEnd).  The
\* decoder accepts both forms and yields the same entries in order; it stops
\* at the DynamicEnd of a dynamic map and consumes it once, also when maps
\* are the values of a map: the input is at its end after the map, and a
\* Special(DynamicEnd) that follows the map is left unread.
C15_MapForms ==
    (mode = "ephemeral" /\ sent.T \in MapTypes) =>
        /\ spc = "encoded" =>
                wire = write_header(CURRENT_VERSION).bytes \o MapForm(Types[sent.T], sent.v)
        /\ spc = "decoded" => (got.ok /\ got.v = sent.v /\ got.end_of_input)
        /\ spc = "decoded_tail" =>
                (~got.ok /\ got.err = "TrailingBytes" /\ ~got.end_of_input)

\* A dynamic map whose two values are dynamic maps, one of them with two
\* entries, was decoded.
C15_Witness ==
    /\ mode = "ephemeral" /\ spc = "decoded"
    /\ Types[sent.T] = TMap(U8, TMap(U8, TLeaf("unit"), FALSE), FALSE)
    /\ Len(sent.v.kids) = 4
    /\ Len(sent.v.kids[2].kids) = 4
    /\ got.ok /\ got.v = sent.v

(***************************************************************************)
(* SpecLookup: a deserializer's symbol list, temporary or persistent, that *)
(* new-symbol atoms have filled, and the visits of reference atoms.        *)
(* tAnswers is what the latest visit was given and answered.               *)
(***************************************************************************)
\* The most symbols in the list.
MaxListLen == 2

\* The lists that n or fewer pushes make of a new list.
RECURSIVE ListsOf(_)
ListsOf(n) ==
    IF n = 0 THEN {DeSymbols(p, SymbolList_new) : p \in BOOLEAN}
    ELSE Let(ListsOf(n - 1), LAMBDA lists :
            lists \cup {DeSymbols_push(l, name, borrowed) :
                            l \in lists, name \in Names, borrowed \in BOOLEAN})

\* The symbol IDs a reference atom may carry: those of a full list and more.
SymbolIds == 0..(MaxListLen + 1)

LookupInit ==
    /\ OthersIdle("symbols")
    /\ tTable = "list"
    /\ tEphemeral = <<>>
    /\ tPersistent = SymbolMap_new
    /\ tList \in ListsOf(MaxListLen)
    /\ tAnswers = <<>>

\* Deserializer::visit_symbol of a reference atom: the string the visitor is
\* handed, or the error.
ListVisitId ==
    /\ tTable = "list"
    /\ \E symbol_id \in SymbolIds :
        \E r \in {visit_symbol([DeserializerIdle EXCEPT !.symbols = tList],
                                Atom(KindSymbol, U64((2 * symbol_id) + 1), NucleusNone))} :
            /\ tList' = r.d.symbols
            /\ tAnswers' = <<[str |-> r.v.b, id |-> symbol_id, ok |-> r.ok, err |-> r.err]>>
    /\ UNCHANGED <<tTable, tEphemeral, tPersistent, NotSymbols>>

SpecLookup == LookupInit /\ [][ListVisitId]_vars

\* C14: a symbol reference atom whose ID is not in the decoder's symbol
\* table at that moment makes the decode fail with UnknownSymbol carrying
\* that ID: no string is handed to the visitor and the table is left as it
\* was; an ID that is in the table resolves to the string registered for it.
C14_UnknownSymbol ==
    [][LET a == tAnswers'[1]
       IN  /\ tList' = tList
           /\ IF a.id \in {b[1] : b \in Bindings}
              THEN a.ok /\ <<a.id, a.str>> \in Bindings
              ELSE ~a.ok /\ a.err = UnknownSymbol(a.id) /\ a.str = <<>>]_vars

\* A list of two symbols was asked for the ID 2.
C14_Witness ==
    /\ tAnswers # <<>>
    /\ Len(tList.list.entries) = 2
    /\ tAnswers[1].id = 2
    /\ ~tAnswers[1].ok
    /\ tAnswers[1].err = "UnknownSymbol(2)"

\* C13: every slice-based decode entry point (Config::deserialize and
\* from_slice, and the persistent symbol list's deserialize_slice) returns
\* TrailingBytes instead of the value when a value was parsed and unread
\* input remains: a successful decode has consumed the entire input.
C13_TrailingBytes ==
    spc = "decoded_tail" =>
        /\ got.ok => got.end_of_input
        /\ (mode = "ephemeral" /\ from_slice(Types[sent.T], SubSeq(wire, 1, Len(wire) - 1)).ok) =>
                (~got.ok /\ got.err = "TrailingBytes")

\* The read was given a whole file header.
WholeHeader == Len(rOp.front) = 4
HasMagic == SubSeq(rOp.front, 1, 3) = Magic

\* C11: reading a file header succeeds only if its first three bytes are
\* exactly 0x50 0x6F 0x74, and any other first three bytes make the read
\* fail with NotAPot.
C11_MagicOrNotAPot ==
    (rpc = "read" /\ rOp.name = "header" /\ WholeHeader) =>
        /\ rRes.ok => HasMagic
        /\ ~HasMagic => (~rRes.ok /\ rRes.err = "NotAPot")

\* C12: a header with the correct magic is accepted if and only if its
\* version byte is at most the current version; with a greater version the
\* decode fails with IncompatibleVersion and nothing after the header, no
\* atom, has been read.
C12_VersionGate ==
    (rpc = "read" /\ rOp.name = "new" /\ WholeHeader /\ HasMagic) =>
        /\ rRes.ok <=> rOp.front[4] <= CURRENT_VERSION
        /\ rOp.front[4] > CURRENT_VERSION =>
                (~rRes.ok /\ rRes.err = "IncompatibleVersion" /\ rRes.consumed = 4)

C12_Witness ==
    /\ rpc = "read" /\ rOp.name = "new" /\ WholeHeader /\ HasMagic
    /\ rOp.front[4] = CURRENT_VERSION + 1 /\ rOp.left > 4
    /\ ~rRes.ok /\ rRes.err = "IncompatibleVersion" /\ rRes.consumed = 4

(***************************************************************************)
(* SpecSizes: a persistent ser::SymbolMap is filled with names through     *)
(* SymbolMap::insert, then payloads are encoded with it, and each payload  *)
(* is also encoded with to_vec.                                            *)
(***************************************************************************)
\* The most names inserted before the first payload.
MaxInserted == 8

\* The types of the payloads whose sizes are compared.
SizeTypes == <<Types[13], Shapes, Inner(Sym(0, 2)), TSeq(Inner(Sym(2, 1)))>>

\* The k-th name inserted: "x" and one more byte.
InsertedName(k) == <<120, k>>

SizesInit ==
    /\ OthersIdle("symbols")
    /\ tTable = "inserting"
    /\ tEphemeral = <<>>
    /\ tPersistent = SymbolMap_new
    /\ tList = DeSymbols(TRUE, SymbolList_new)
    /\ tAnswers = <<>>

\* sender.insert(name)
SizesInsert ==
    /\ tTable = "inserting" /\ Len(tPersistent.entries) < MaxInserted
    /\ tPersistent' = find_entry_by_str(tPersistent, InsertedName(Len(tPersistent.entries))).map
    /\ UNCHANGED <<tTable, tEphemeral, tList, tAnswers, NotSymbols>>

\* sender.serialize_to_vec(&value) and to_vec(&value)
SizesEncode ==
    /\ tTable \in {"inserting", "sized"} /\ Len(tAnswers) < MaxPayloads
    /\ \E i \in 1..Len(SizeTypes) : \E v \in ValuesOf(SizeTypes[i]) :
        \E p \in {serialize_with(tPersistent, SizeTypes[i], v)} :
        \E e \in {to_vec(SizeTypes[i], v)} :
            /\ tPersistent' = p.symbol_map.map
            /\ tAnswers' = Append(tAnswers,
                    [T |-> i, v |-> v, registered |-> Len(tPersistent.entries),
                     ok |-> p.ok /\ e.ok, calls |-> p.log,
                     persistent |-> p.bytes, ephemeral |-> e.bytes])
    /\ tTable' = "sized"
    /\ UNCHANGED <<tEphemeral, tList, NotSymbols>>

SizesNext == SizesInsert \/ SizesEncode

SpecSizes == SizesInit /\ [][SizesNext]_vars

\* The payload wrote a reference to a symbol registered before it.
RepeatsASymbol(a) == \E k \in 1..Len(a.calls) : ~a.calls[k].new /\ a.calls[k].id < a.registered

\* C21: a payload encoded with a persistent symbol map is never longer than
\* the same payload encoded with a new ephemeral map, and it is strictly
\* shorter whenever at least one of its symbols was already registered by an
\* earlier payload.
C21_PersistentNeverLonger ==
    \A n \in 1..Len(tAnswers) :
        (tTable = "sized" /\ tAnswers[n].ok) =>
            /\ Len(tAnswers[n].persistent) <= Len(tAnswers[n].ephemeral)
            /\ RepeatsASymbol(tAnswers[n]) =>
                    Len(tAnswers[n].persistent) < Len(tAnswers[n].ephemeral)

(***************************************************************************)
(* Value (value.rs): the self-describing value a payload decodes to        *)
(* through deserialize_any (de.rs 178-258) and ValueVisitor (value.rs      *)
(* 487-677).  A Value is None, Unit, Bool, Integer, Float, Bytes, String,  *)
(* Sequence or Mappings; an Integer keeps the signedness and the width of  *)
(* its InnerInteger and a Float the bytes of its payload.                  *)
(***************************************************************************)
Value_Integer(int) == VNode("integer", IF int.signed THEN 0 - int.width ELSE int.width, int.v, <<>>)
Value_Float(bytes) == VNode("float", Len(bytes), bytes, <<>>)

RECURSIVE deserialize_any(_)
RECURSIVE ValueVisitSeq(_, _, _)
RECURSIVE ValueVisitMap(_, _, _)
RECURSIVE ValueVisitMap_keys_only(_, _, _)

\* ValueVisitor::visit_seq: next_element until the access is empty.
ValueVisitSeq(list, d, acc) ==
    Let(check_is_eof(list, d), LAMBDA e :
        IF ~e.ok THEN DeErr(e.err, e.d)
        ELSE IF e.eof THEN DeOk(VSeq(acc), e.d)
        ELSE Let(deserialize_any(e.d), LAMBDA r :
                IF ~r.ok THEN r ELSE ValueVisitSeq(Advance(e.list), r.d, Append(acc, r.v))))

ValueVisitMap_keys_only(list, d, acc) ==
    Let(check_is_eof(list, d), LAMBDA e :
        IF ~e.ok THEN DeErr(e.err, e.d)
        ELSE IF e.eof THEN DeOk(VMap(acc), e.d)
        ELSE Let(deserialize_any(e.d), LAMBDA k :
                IF ~k.ok THEN k
                ELSE ValueVisitMap_keys_only(Advance(e.list), k.d, acc \o <<k.v, VUnit>>)))

\* ValueVisitor::visit_map: next_entry until the access is empty.
ValueVisitMap(list, d, acc) ==
    Let(check_is_eof(list, d), LAMBDA e :
        IF ~e.ok THEN DeErr(e.err, e.d)
        ELSE IF e.eof THEN DeOk(VMap(acc), e.d)
        ELSE Let(deserialize_any(e.d), LAMBDA k :
                IF ~k.ok THEN k
                ELSE Let(deserialize_any(k.d), LAMBDA v :
                        IF ~v.ok THEN v
                        ELSE ValueVisitMap(Advance(e.list), v.d, acc \o <<k.v, v.v>>))))

\* Deserializer::deserialize_any with a ValueVisitor
deserialize_any(d) ==
    Let(De_read_atom(d), LAMBDA a :
        IF ~a.ok THEN DeErr(a.err, a.d)
        ELSE CASE a.atom.kind = KindSpecial ->
                    (CASE a.atom.nucleus.tag = "Boolean" -> DeOk(VBool(a.atom.nucleus.bool), a.d)
                       [] a.atom.nucleus.tag = "Unit" -> DeOk(VUnit, a.d)
                       [] a.atom.nucleus.tag = "Named" -> ValueVisitMap(AtomList_new(1), a.d, <<>>)
                       [] a.atom.nucleus.tag = "DynamicMap" ->
                            ValueVisitMap(AtomList_new(-1), a.d, <<>>)
                       [] a.atom.nucleus.tag = "DynamicEnd" -> DeErr("Message", a.d)
                       [] OTHER -> DeOk(VNone, a.d))
               [] a.atom.kind \in {KindInt, KindUInt} ->
                    DeOk(Value_Integer(a.atom.nucleus.int), a.d)
               [] a.atom.kind = KindFloat -> DeOk(Value_Float(a.atom.nucleus.bytes), a.d)
               [] a.atom.kind = KindSequence ->
                    ValueVisitSeq(AtomList_new(ToNat(a.atom.arg)), a.d, <<>>)
               [] a.atom.kind = KindMap -> ValueVisitMap(AtomList_new(ToNat(a.atom.arg)), a.d, <<>>)
               [] a.atom.kind = KindSymbol -> visit_symbol(a.d, a.atom)
               [] a.atom.kind = KindBytes ->
                    IF Utf8Valid(a.atom.nucleus.bytes)
                    THEN DeOk(VStr(a.atom.nucleus.bytes), a.d)
                    ELSE DeOk(VBytes(a.atom.nucleus.bytes), a.d))

\* from_slice::<Value>(&bytes)
Value_from_slice(serialized) ==
    Let(Deserializer_new(SliceReader(serialized), DeSymbols(FALSE, SymbolList_new), Huge),
        LAMBDA d :
            IF ~d.ok THEN d
            ELSE Let(deserialize_any(d.d), LAMBDA t :
                    IF ~t.ok THEN t
                    ELSE IF end_of_input(t.d) THEN t
                    ELSE DeErr("TrailingBytes", t.d)))

(***************************************************************************)
(* SpecValues: payloads are encoded, decoded as a Value, and the Value is  *)
(* encoded and decoded again.  The compatibility option of Config is not   *)
(* in lib.rs or ser.rs; tests.rs 768-802 uses it, and the V4 encoding of a *)
(* unit variant below is the one the format description gives: the Named   *)
(* atom, the symbol of the variant, then a Special(Unit).                  *)
(***************************************************************************)
\* serialize_unit_variant under Compatibility::V4
serialize_unit_variant_V4(s, variant) == serialize_unit(serialize_unit_variant(s, variant))

\* An enum value under Compatibility::V4
SerializeV4(T, v, s) ==
    IF T.kids[v.n].t = "unit_variant"
    THEN serialize_unit_variant_V4(s, T.kids[v.n].syms[1])
    ELSE Serialize(T, v, s)

RECURSIVE SerializeElementsV4(_, _, _, _)
SerializeElementsV4(T, vs, i, s) ==
    IF i > Len(vs) \/ ~s.ok THEN s
    ELSE SerializeElementsV4(T, vs, i + 1, SerializeV4(T, vs[i], s))

\* Config::new().compatibility(Compatibility::V4).serialize(&value) for an
\* enum and for a Vec of enums
Config_V4_serialize(T, v) ==
    Let(Serializer_new_with_symbol_map(SymbolMapRef_Ephemeral), LAMBDA s :
        Encoded(IF T.t = "seq"
                THEN SerializeElementsV4(T.kids[1], v.kids, 1, serialize_seq(s, Len(v.kids)))
                ELSE SerializeV4(T, v, s)))

\* The types of the payloads encoded under V4: Shapes and Vec<Shapes>.
V4Types == {14, 15}

ValuesInit ==
    /\ OthersIdle("session")
    /\ mode = "values"
    /\ spc = "ready"
    /\ sender = SymbolMap_new
    /\ receiver = SymbolList_new
    /\ wire = <<>>
    /\ sent = SentIdle
    /\ got = GotIdle
    /\ log = <<>>
    /\ payloads = 0
    /\ rejected = 0

\* Config::new().compatibility(Compatibility::V4).serialize(&value)
EncodeV4 ==
    /\ spc = "ready"
    /\ \E i \in V4Types : \E v \in ValuesOf(Types[i]) :
        \E e \in {Config_V4_serialize(Types[i], v)} :
            /\ sent' = [T |-> i, v |-> v, from |-> 0]
            /\ wire' = e.bytes
            /\ log' = e.log
    /\ spc' = "encoded_v4"
    /\ payloads' = 1
    /\ UNCHANGED <<mode, sender, receiver, got, rejected, NotSession>>

\* from_slice::<Value>(&bytes)
DecodeValue ==
    /\ spc \in {"encoded_v4"}
    /\ got' = Decoded(TLeaf("value"), Value_from_slice(wire))
    /\ spc' = "value_v4"
    /\ UNCHANGED <<mode, sender, receiver, wire, sent, log, payloads, rejected, NotSession>>

ValuesNext == EncodeV4 \/ DecodeValue

SpecValues == ValuesInit /\ [][ValuesNext]_vars

\* The Value a u8 decodes to.
Value_u8(v) == Value_Integer([signed |-> FALSE, width |-> 1, v |-> ValueBytes(IntDescriptor(v.n))])

\* The Value of the payload of a variant of Shapes.
PayloadValue(V, v) ==
    CASE V.t = "unit_variant" -> VUnit
      [] V.t = "newtype_variant" -> Value_u8(v.kids[1])
      [] V.t = "tuple_variant" -> VSeq(<<Value_u8(v.kids[1]), v.kids[2]>>)
      [] V.t = "struct_variant" -> VMap(<<VStr(Content(V.syms[2])), Value_u8(v.kids[1])>>)

\* A one-entry map from the name of the variant to its payload.
NamedValue(T, v) == VMap(<<VStr(Content(T.kids[v.n].syms[1])), PayloadValue(T.kids[v.n], v)>>)

MaxArg == 17

U64Max == [i \in 1..64 |-> 1]
U64Pow(k) == [i \in 1..64 |-> IF i = k + 1 THEN 1 ELSE 0]

\* The arguments drawn: the small ones, powers of two across the widths,
\* u64::MAX - 1 and u64::MAX.
NumberArgs ==
    {U64(n) : n \in 0..MaxArg}
        \cup {U64Pow(k) : k \in {8, 31, 32, 63}}
        \cup {[U64Max EXCEPT ![1] = 0], U64Max}

NumbersInit ==
    /\ OthersIdle("integer")
    /\ ipc = "header"
    /\ iOut = HeaderOutIdle
    /\ iAtom = IntAtomIdle
    /\ iCast = IntCastIdle
    /\ \E kind \in {KindInt, KindUInt, KindFloat}, arg \in NumberArgs,
          payload \in {0, 1, 16, 17}, overflow_checks \in BOOLEAN, slice \in BOOLEAN :
        iIn = [kind |-> kind, arg |-> arg, payload |-> payload,
               overflow_checks |-> overflow_checks, slice |-> slice]

\* format::write_atom_header(&mut bytes, kind, arg), then the payload bytes
WriteNumberHeader ==
    /\ ipc = "header"
    /\ \E h \in {write_atom_header(iIn.kind, iIn.arg)} :
        iOut' = [n |-> h.n + iIn.payload, bytes |-> h.bytes \o Repeat(1, iIn.payload)]
    /\ ipc' = "number"
    /\ UNCHANGED <<iIn, iAtom, iCast, hvars, svars, tvars, avars, rvars>>

\* format::read_atom(&mut reader, &mut usize::MAX, &mut scratch)
ReadNumber ==
    /\ ipc = "number"
    /\ iAtom' = read_atom_built(IF iIn.slice THEN SliceReader(iOut.bytes) ELSE IoReader(iOut.bytes),
                                Huge, iIn.overflow_checks)
    /\ ipc' = "number_read"
    /\ UNCHANGED <<iIn, iOut, iCast, hvars, svars, tvars, avars, rvars>>

NumbersNext == WriteNumberHeader \/ ReadNumber

SpecNumbers == NumbersInit /\ [][NumbersNext]_vars

\* The byte lengths read_from supports, as header arguments (length - 1).
SupportedArg(kind, arg) ==
    /\ Below(arg, 4)
    /\ IF kind = KindFloat THEN LowBits(arg, 4) + 1 \in {2, 4, 8}
       ELSE LowBits(arg, 4) + 1 \in {1, 2, 3, 4, 6, 8, 16}

\* C23: reading an Int or UInt atom whose byte length (argument + 1) is not
\* one of 1, 2, 3, 4, 6, 8, 16, or a Float atom whose byte length is not one
\* of 2, 4, 8, returns an error and never a value or a crash, for every
\* 64-bit header argument.
C23_UnsupportedLengthIsError ==
    (ipc = "number_read" /\ ~SupportedArg(iIn.kind, iIn.arg)) =>
        (~iAtom.ok /\ iAtom.err # Panicked)

(***************************************************************************)
(* SpecSequences: a serializer writes some values and is then asked to     *)
(* begin a sequence, of a known length or of none.                         *)
(***************************************************************************)
\* The most values written before the sequence is begun.
MaxWrites == 4

SequencesInit ==
    /\ OthersIdle("session")
    /\ mode = "sequences"
    /\ spc = "ready"
    /\ sender = Serializer_new_with_symbol_map(SymbolMapRef_Ephemeral)
    /\ receiver = SymbolList_new
    /\ wire = sender.output
    /\ sent = SentIdle
    /\ got = GotIdle
    /\ log = <<>>
    /\ payloads = 0
    /\ rejected = 0

\* One of serialize_u8, serialize_bool, serialize_unit, serialize_none
SerializeBefore ==
    /\ spc = "ready"
    /\ payloads < MaxWrites
    /\ sender' \in {serialize_u8(sender, 0), serialize_u8(sender, 200),
                    serialize_bool(sender, TRUE), serialize_unit(sender),
                    serialize_none(sender)}
    /\ wire' = sender'.output
    /\ payloads' = payloads + 1
    /\ UNCHANGED <<mode, spc, receiver, sent, got, log, rejected, NotSession>>

\* serializer.serialize_seq(len), where -1 stands for None
SerializeSeq ==
    /\ spc = "ready"
    /\ \E len \in {-1} \cup 0..MaxLen :
        /\ sender' = serialize_seq(sender, len)
        /\ sent' = [len |-> len, output |-> sender.output, bytes_written |-> sender.bytes_written]
    /\ wire' = sender'.output
    /\ got' = [ok |-> sender'.ok, err |-> sender'.err]
    /\ rejected' = IF sender'.ok THEN 0 ELSE 1
    /\ spc' = "seq"
    /\ UNCHANGED <<mode, receiver, log, payloads, NotSession>>

SequencesNext == SerializeBefore \/ SerializeSeq

SpecSequences == SequencesInit /\ [][SequencesNext]_vars

\* C24: asking the encoder to begin a sequence whose length is not known in
\* advance fails with SequenceSizeMustBeKnown, and no byte is written for
\* that sequence: the output and the count of bytes written are as before.
C24_UnknownLengthRefused ==
    (spc = "seq" /\ sent.len = -1) =>
        /\ ~got.ok
        /\ got.err = "SequenceSizeMustBeKnown"
        /\ wire = sent.output
        /\ sender.bytes_written = sent.bytes_written

C24_Witness ==
    /\ spc = "seq" /\ sent.len = -1
    /\ payloads = 2
    /\ Len(sent.output) > Len(write_header(CURRENT_VERSION).bytes)
    /\ wire = sent.output
    /\ got.err = "SequenceSizeMustBeKnown"

(***************************************************************************)
(* impl Serialize for Value (value.rs 385-428) and SpecRevalue: a payload  *)
(* is decoded as a Value, the Value is encoded, and the result is decoded  *)
(* as a Value again.                                                       *)
(***************************************************************************)
\* The writer serialize_i8 .. serialize_u128 hands the integer to: that of
\* the InnerInteger variant.
IntegerWriter(n) ==
    CASE n = -1 -> "i8" [] n = -2 -> "i16" [] n = -4 -> "i32" [] n = -8 -> "i64"
      [] n = -16 -> "i128" [] n = 1 -> "u8" [] n = 2 -> "u16" [] n = 4 -> "u32"
      [] n = 8 -> "u64" [] n = 16 -> "u128"

\* write_f32 and write_f64 of the value 0.0, the one float the payloads
\* hold: 0.0 is exact as an f32 and as an f16, so two bytes are written.
write_f32(bytes) ==
    CASE \A i \in 1..Len(bytes) : bytes[i] = 0 ->
        Let(write_atom_header(KindFloat, U64(1)), LAMBDA h :
            [n |-> h.n + 2, bytes |-> h.bytes \o <<0, 0>>])
write_f64(bytes) ==
    CASE ExactAsF32(bytes) /\ \A i \in 1..Len(bytes) : bytes[i] = 0 -> write_f32(<<0, 0, 0, 0>>)

RECURSIVE Value_serialize(_, _)
RECURSIVE Value_serialize_elements(_, _, _)
\* for value in values { seq.serialize_element(value)? } and
\* for (key, value) in keys_and_values { map.serialize_entry(key, value)? }
Value_serialize_elements(values, i, s) ==
    IF i > Len(values) \/ ~s.ok THEN s
    ELSE Value_serialize_elements(values, i + 1, Value_serialize(values[i], s))

\* Value::serialize
Value_serialize(value, s) ==
    CASE value.t = "none" -> serialize_none(s)
      [] value.t = "unit" -> serialize_unit(s)
      [] value.t = "bool" -> serialize_bool(s, value.n = 1)
      [] value.t = "integer" -> Emit(s, WriteWith(IntegerWriter(value.n), value.b))
      [] value.t = "float" ->
            Emit(s, IF value.n = 8 THEN write_f64(value.b) ELSE write_f32(value.b))
      [] value.t = "bytes" -> serialize_bytes(s, value.b)
      [] value.t = "str" -> serialize_str(s, value.b)
      [] value.t = "seq" ->
            Let(serialize_seq(s, Len(value.kids)), LAMBDA seq :
                Value_serialize_elements(value.kids, 1, seq))
      [] value.t = "map" ->
            Let(serialize_map(s, Len(value.kids) \div 2), LAMBDA map :
                MapSerializer_end(Value_serialize_elements(value.kids, 1, map), TRUE))

\* to_vec(&value) of a Value
Value_to_vec(value) ==
    Encoded(Value_serialize(value, Serializer_new_with_symbol_map(SymbolMapRef_Ephemeral)))

\* The types of the payloads that are decoded as a Value.
RevalueTypes == {1, 5, 6, 7, 9, 11, 12, 13, 14}

\* Payloads no encoder writes: 5 as an Int of two bytes, 7 as a UInt of two
\* bytes, 0.0 as a Float of eight bytes and of four.
RawPayloads ==
    {write_header(CURRENT_VERSION).bytes \o atom :
        atom \in {<<(KindInt * 32) + 1, 5, 0>>, <<(KindUInt * 32) + 1, 7, 0>>,
                  <<(KindFloat * 32) + 7>> \o Repeat(0, 8),
                  <<(KindFloat * 32) + 3>> \o Repeat(0, 4)}}

RevalueInit ==
    /\ HeaderIdle /\ IntegerSpecIdle /\ AtomsIdle /\ ReaderIdle
    /\ mode = "revalue"
    /\ spc = "ready"
    /\ sender = SymbolMap_new
    /\ receiver = SymbolList_new
    /\ wire = <<>>
    /\ sent = SentIdle
    /\ got = GotIdle
    /\ log = <<>>
    /\ payloads = 0
    /\ rejected = 0
    /\ tTable = "revalue"
    /\ tEphemeral = <<>>
    /\ tPersistent = SymbolMap_new
    /\ tList = DeSymbols(FALSE, SymbolList_new)
    /\ tAnswers = <<>>

NotRevalue == <<hvars, ivars, avars, rvars, tTable, tEphemeral, tPersistent, tList>>

\* to_vec(&value) of a typed value
EncodeTyped ==
    /\ spc = "ready"
    /\ \E i \in RevalueTypes : \E v \in ValuesOf(Types[i]) :
        \E e \in {to_vec(Types[i], v)} :
            /\ e.ok
            /\ sent' = [T |-> i, v |-> v, from |-> 0]
            /\ wire' = e.bytes
            /\ log' = e.log
    /\ spc' = "payload"
    /\ payloads' = 1
    /\ UNCHANGED <<mode, sender, receiver, got, rejected, tAnswers, NotRevalue>>

\* A payload written by hand
ComposeRaw ==
    /\ spc = "ready"
    /\ wire' \in RawPayloads
    /\ spc' = "payload"
    /\ payloads' = 1
    /\ UNCHANGED <<mode, sender, receiver, sent, got, log, rejected, tAnswers, NotRevalue>>

\* let value: Value = from_slice(&payload)
DecodeAsValue ==
    /\ spc = "payload"
    /\ got' = Decoded(TLeaf("value"), Value_from_slice(wire))
    /\ spc' = "value"
    /\ UNCHANGED <<mode, sender, receiver, wire, sent, log, payloads, rejected, tAnswers,
                   NotRevalue>>

\* to_vec(&value)
EncodeValue ==
    /\ spc = "value" /\ got.ok
    /\ \E e \in {Value_to_vec(got.v)} :
        tAnswers' = <<[ok |-> e.ok, err |-> e.err, bytes |-> e.bytes]>>
    /\ spc' = "reencoded"
    /\ UNCHANGED <<mode, sender, receiver, wire, sent, got, log, payloads, rejected, NotRevalue>>

\* from_slice::<Value>(&reencoded)
DecodeValueAgain ==
    /\ spc = "reencoded" /\ tAnswers[1].ok
    /\ tAnswers' = Append(tAnswers, Decoded(TLeaf("value"), Value_from_slice(tAnswers[1].bytes)))
    /\ spc' = "revalued"
    /\ UNCHANGED <<mode, sender, receiver, wire, sent, got, log, payloads, rejected, NotRevalue>>

RevalueNext == EncodeTyped \/ ComposeRaw \/ DecodeAsValue \/ EncodeValue \/ DecodeValueAgain

SpecRevalue == RevalueInit /\ [][RevalueNext]_vars

\* The atoms of a payload in wire order: the kind of each, the argument of
\* a Special, Sequence or Map, the content of a Bytes, and the name a Symbol
\* stands for, whatever its ID.  A numeric atom is its kind alone.
RECURSIVE WireAtoms(_, _, _)
WireAtoms(rd, names, acc) ==
    IF rd.data = <<>> THEN acc
    ELSE Let(read_atom(rd, Huge), LAMBDA a :
        IF ~a.ok THEN Append(acc, [kind |-> -1, arg |-> 0, content |-> <<>>])
        ELSE CASE a.atom.kind = KindSymbol /\ ToNat(a.atom.arg) % 2 = 0 ->
                    Let(buffered_read_bytes(a.rd, ToNat(a.atom.arg) \div 2), LAMBDA name :
                        WireAtoms(name.rd, Append(names, name.bytes),
                                  Append(acc, [kind |-> KindSymbol, arg |-> 0,
                                               content |-> name.bytes])))
               [] a.atom.kind = KindSymbol ->
                    WireAtoms(a.rd, names,
                              Append(acc, [kind |-> KindSymbol, arg |-> 0,
                                           content |-> names[(ToNat(a.atom.arg) \div 2) + 1]]))
               [] a.atom.kind = KindBytes ->
                    WireAtoms(a.rd, names,
                              Append(acc, [kind |-> KindBytes, arg |-> 0,
                                           content |-> a.atom.nucleus.bytes]))
               [] a.atom.kind \in {KindInt, KindUInt, KindFloat} ->
                    WireAtoms(a.rd, names, Append(acc, [kind |-> a.atom.kind, arg |-> 0,
                                                        content |-> <<>>]))
               [] OTHER ->
                    WireAtoms(a.rd, names, Append(acc, [kind |-> a.atom.kind,
                                                        arg |-> ToNat(a.atom.arg),
                                                        content |-> <<>>])))

AtomsOfPayload(bytes) == WireAtoms(SliceReader(SubSeq(bytes, 5, Len(bytes))), <<>>, <<>>)

\* Value's PartialEq: derived, but for floats, which compare as numbers.
RECURSIVE ValueEq(_, _)
ValueEq(a, b) ==
    IF a.t = "float" /\ b.t = "float"
    THEN (\A i \in 1..Len(a.b) : a.b[i] = 0) /\ (\A i \in 1..Len(b.b) : b.b[i] = 0)
    ELSE /\ a.t = b.t /\ a.n = b.n /\ a.b = b.b
         /\ Len(a.kids) = Len(b.kids)
         /\ \A k \in 1..Len(a.kids) : ValueEq(a.kids[k], b.kids[k])

\* C25: for every payload P that decodes to a Value V, encoding V yields
\* bytes identical to P except for numeric narrowing and symbol-ID
\* assignment (the atom structure, the kinds of all non-numeric atoms and
\* all string and byte contents are preserved), and decoding the re-encoded
\* bytes yields a Value equal to V.
C25_ValueReencodes ==
    /\ (spc = "reencoded" /\ got.ok) =>
            /\ tAnswers[1].ok
            /\ AtomsOfPayload(tAnswers[1].bytes) = AtomsOfPayload(wire)
    /\ spc = "revalued" => (tAnswers[2].ok /\ ValueEq(tAnswers[2].v, got.v))

(***************************************************************************)
(* SpecPeek: reads and peeks of a deserializer in any order.  A call of    *)
(* peek_atom_at takes one step for each turn of its loop and one to        *)
(* return; nothing else runs while a peek is in progress.                  *)
(***************************************************************************)
\* The most atoms of the input, the largest index peeked at and the most
\* peeks of a run.
MaxInput == 2
MaxIndex == 1
MaxPeeks == 2

PeekMenu == {WireAtom(KindInt, 1), WireAtom(KindBytes, 3), WireAtom(KindSpecial, SpecialUnit)}

PeekInit ==
    /\ OthersIdle("atoms")
    /\ apc = "ready"
    /\ aIn \in {[atoms |-> p, budget |-> Huge, slice |-> sl] :
                    p \in UNION {[1..n -> PeekMenu] : n \in 0..MaxInput}, sl \in BOOLEAN}
    /\ aD = DeserializerIdle
    /\ aRead = <<>>
    /\ aErr = ""

Peeks == {k \in 1..Len(aRead) : aRead[k].op = "peek_atom_at"}

\* peek_atom_at(index) is called
PeekAtomAt ==
    /\ apc = "reading"
    /\ Cardinality(Peeks) < MaxPeeks
    /\ \E index \in 0..MaxIndex :
        aRead' = Append(aRead, [op |-> "peek_atom_at", index |-> index, returned |-> FALSE,
                                ok |-> TRUE, err |-> "", atom |-> AtomIdle])
    /\ apc' = "peeking"
    /\ UNCHANGED <<aIn, aD, aErr, NotAtoms>>

\* One turn of `while index >= self.peeked_atom.len()`:
\* let atom = self.read_atom()?; self.peeked_atom.push_back(atom)
PeekLoop ==
    /\ apc = "peeking"
    /\ aRead[Len(aRead)].index >= Len(aD.peeked_atom)
    /\ \E r \in {De_read_atom(aD)} :
        /\ aD' = IF r.ok THEN [r.d EXCEPT !.peeked_atom = Append(@, r.atom)] ELSE r.d
        /\ aErr' = r.err
        /\ aRead' = IF r.ok THEN aRead
                    ELSE [aRead EXCEPT ![Len(aRead)].ok = FALSE, ![Len(aRead)].err = r.err,
                                       ![Len(aRead)].returned = TRUE]
        /\ apc' = IF r.ok THEN "peeking" ELSE "failed"
    /\ UNCHANGED <<aIn, NotAtoms>>

\* Ok(&self.peeked_atom[index])
PeekReturn ==
    /\ apc = "peeking"
    /\ aRead[Len(aRead)].index < Len(aD.peeked_atom)
    /\ aRead' = [aRead EXCEPT ![Len(aRead)].returned = TRUE,
                              ![Len(aRead)].atom = aD.peeked_atom[aRead[Len(aRead)].index + 1]]
    /\ apc' = "reading"
    /\ UNCHANGED <<aIn, aD, aErr, NotAtoms>>

PeekNext == BeginDecode \/ ReadAtom \/ PeekAtomAt \/ PeekLoop \/ PeekReturn

\* A call that has begun runs on: the loop turns while its condition holds
\* and the call returns when it does not.
SpecPeek ==
    /\ PeekInit /\ [][PeekNext]_vars
    /\ WF_vars(BeginDecode) /\ WF_vars(PeekLoop) /\ WF_vars(PeekReturn)

\* The atoms format::read_atom gives for the input, in wire order.
RECURSIVE AtomsOfInput(_, _)
AtomsOfInput(rd, acc) ==
    IF rd.data = <<>> THEN acc
    ELSE Let(read_atom(rd, Huge), LAMBDA a :
            IF ~a.ok THEN acc ELSE AtomsOfInput(a.rd, Append(acc, a.atom)))

InputAtoms == AtomsOfInput(SliceReader(PayloadBytes(aIn.atoms)), <<>>)

\* The atoms the reads so far returned, in the order of the reads.
ReadSoFar == SelectSeq(aRead, LAMBDA c : c.op = "read_atom")

\* The last call made.
LastCall ==
    IF aRead = <<>> THEN [op |-> "", index |-> 0, returned |-> FALSE, atom |-> AtomIdle]
    ELSE aRead[Len(aRead)]

\* A peek at index i is in progress and the input still holds i + 1 atoms.
PeekPending(i) ==
    /\ apc = "peeking"
    /\ LastCall.index = i
    /\ Len(ReadSoFar) + i + 1 <= Len(InputAtoms)

\* The last call was a peek and it has returned an atom.
PeekReturned == apc = "reading" /\ LastCall.op = "peek_atom_at" /\ LastCall.returned

\* Every read so far returned the next atom of the input, and the buffer
\* after a peek that returned holds the atoms that follow in wire order.
ReadsInWireOrder ==
    /\ Len(ReadSoFar) <= Len(InputAtoms)
    /\ \A k \in 1..Len(ReadSoFar) : ReadSoFar[k].ok /\ ReadSoFar[k].atom = InputAtoms[k]
    /\ PeekReturned =>
        /\ Len(aD.peeked_atom) > LastCall.index
        /\ Len(ReadSoFar) + Len(aD.peeked_atom) <= Len(InputAtoms)
        /\ \A j \in 1..Len(aD.peeked_atom) : aD.peeked_atom[j] = InputAtoms[Len(ReadSoFar) + j]
        /\ LastCall.atom = aD.peeked_atom[LastCall.index + 1]

\* C26: peeking never changes what is read: for every interleaving of peeks
\* and reads, successive reads return exactly the atoms of the input in wire
\* order, each once; a peek at index i that returns has buffered the next
\* atoms in wire order, i + 1 of them at least; and a peek at index i
\* terminates, for every i for which the input still holds i + 1 atoms.
C26_PeekKeepsOrderAndTerminates ==
    /\ []ReadsInWireOrder
    /\ (\E i \in 0..MaxIndex : PeekPending(i)) ~> PeekReturned

(***************************************************************************)
(* SpecBudget: a payload of Bytes, numeric and new-symbol atoms is decoded *)
(* value by value under an allocation budget.                              *)
(***************************************************************************)
\* The largest budget configured.
MaxBudget == 6

BudgetMenu ==
    {WireAtom(KindBytes, 3), WireAtom(KindUInt, 2), WireAtom(KindFloat, 4),
     WireAtom(KindSymbol, 1), WireAtom(KindSymbol, 3)}

BudgetInit ==
    /\ OthersIdle("atoms")
    /\ apc = "ready"
    /\ aIn \in {[atoms |-> p, budget |-> b, slice |-> sl] :
                    p \in UNION {[1..n -> BudgetMenu] : n \in 0..MaxAtoms},
                    b \in 0..MaxBudget, sl \in BOOLEAN}
    /\ aD = DeserializerIdle
    /\ aRead = <<>>
    /\ aErr = ""

\* Value::deserialize(&mut deserializer) of the next atom
DeserializeAny ==
    /\ apc = "reading"
    /\ \E r \in {deserialize_any(aD)} :
        /\ aD' = r.d
        /\ aErr' = r.err
        /\ aRead' = Append(aRead, [before |-> aD.remaining_budget,
                                   after |-> r.d.remaining_budget,
                                   ok |-> r.ok, err |-> r.err,
                                   op |-> "deserialize_any", v |-> r.v])
        /\ apc' = IF ~r.ok THEN "failed" ELSE IF end_of_input(r.d) THEN "done" ELSE "reading"
    /\ UNCHANGED <<aIn, NotAtoms>>

BudgetNext == BeginDecode \/ DeserializeAny

SpecBudget == BudgetInit /\ [][BudgetNext]_vars

\* The bytes of variable-size data a decoded value holds: the contents of
\* a string, the in-memory size of a number.
BytesHeld(v) ==
    CASE v.t \in {"str", "bytes"} -> Len(v.b)
      [] v.t = "integer" -> IF v.n < 0 THEN 0 - v.n ELSE v.n
      [] v.t = "float" -> v.n
      [] OTHER -> 0

RECURSIVE BytesRead(_)
BytesRead(calls) ==
    IF calls = <<>> THEN 0
    ELSE (IF Head(calls).ok THEN BytesHeld(Head(calls).v) ELSE 0) + BytesRead(Tail(calls))

\* C27: the allocation budget bounds all variable-size data the decoder
\* reads: the bytes read as Bytes contents, numeric payloads (at in-memory
\* size) and new-symbol names during one decode never exceed the configured
\* budget, and a new-symbol atom announcing a name longer than the remaining
\* budget is refused.
C27_BudgetBoundsAll ==
    /\ BytesRead(aRead) <= aIn.budget
    /\ \A k \in 1..Len(aRead) :
        (aIn.atoms[k].kind = KindSymbol /\ aIn.atoms[k].size > aRead[k].before) => ~aRead[k].ok

(***************************************************************************)
(* SpecStrings: a string is requested (deserialize_str) for each atom of a *)
(* payload of Bytes, new-symbol and Special atoms.                         *)
(***************************************************************************)
StringMenu ==
    {WireAtom(KindBytes, 1), WireAtom(KindSymbol, 1), WireAtom(KindSpecial, SpecialUnit)}
        \cup {WireAtom(KindSpecial, s) :
                s \in {SpecialFalse, SpecialTrue, SpecialDynamicMap, SpecialDynamicEnd}}

StringsInit ==
    /\ OthersIdle("atoms")
    /\ apc = "ready"
    /\ aIn \in {[atoms |-> p, budget |-> Huge, slice |-> sl] :
                    p \in UNION {[1..n -> StringMenu] : n \in 0..MaxAtoms}, sl \in BOOLEAN}
    /\ aD = DeserializerIdle
    /\ aRead = <<>>
    /\ aErr = ""

\* <&str>::deserialize(&mut deserializer): deserialize_str
DeserializeStr ==
    /\ apc = "reading"
    /\ \E r \in {deserialize_str(aD)} :
        /\ aD' = r.d
        /\ aErr' = r.err
        /\ aRead' = Append(aRead, [symbols |-> aD.symbols, symbols_after |-> r.d.symbols,
                                   consumed |-> Len(aD.input.data) - Len(r.d.input.data),
                                   ok |-> r.ok, err |-> r.err,
                                   op |-> "deserialize_str", v |-> r.v])
        /\ apc' = IF ~r.ok THEN "failed" ELSE IF end_of_input(r.d) THEN "done" ELSE "reading"
    /\ UNCHANGED <<aIn, NotAtoms>>

StringsNext == BeginDecode \/ DeserializeStr

SpecStrings == StringsInit /\ [][StringsNext]_vars

\* C28: the decoder's symbol table gains an entry only when a new-symbol
\* atom is consumed, and then exactly one; a Special atom (False, True,
\* DynamicMap, DynamicEnd) met where a string is requested neither adds a
\* symbol, nor looks one up, nor reads further input bytes as a name.
C28_TableGrowsOnNewSymbolOnly ==
    \A k \in 1..Len(aRead) :
        LET w == aIn.atoms[k]
            call == aRead[k]
        IN  /\ IF w.kind = KindSymbol /\ call.ok
               THEN Len(call.symbols_after.list.entries) = Len(call.symbols.list.entries) + 1
               ELSE call.symbols_after = call.symbols
            /\ (w.kind = KindSpecial /\ w.size # SpecialUnit) =>
                    /\ call.symbols_after = call.symbols
                    /\ call.err \notin {UnknownSymbol(id) : id \in 0..3}
                    /\ call.consumed = Len(WireBytes(w))

(***************************************************************************)
(* The encoder's symbol tables and the contents of the symbols (Spec).     *)
(***************************************************************************)
\* The string the decoder has for the ID of the j-th symbol written: the
\* name of the new-symbol atom that announced the ID.
Announced(l, j) == {Content(l[m].sym) : m \in {m \in 1..j : l[m].new /\ l[m].id = l[j].id}}

\* C29: an encoder symbol table (ephemeral or persistent) never gives the
\* same ID to two symbols with different string contents, even when their
\* string data begins at the same memory address; so every reference atom
\* the encoder emits resolves on the decoder to the string the encoder was
\* asked to write.
C29_OneContentPerId ==
    /\ \A i, j \in 1..Len(log) :
            log[i].id = log[j].id => Content(log[i].sym) = Content(log[j].sym)
    /\ \A j \in 1..Len(log) : Announced(log, j) = {Content(log[j].sym)}

\* C30: if encoding a payload with a persistent encoder symbol map fails
\* part-way, the map afterwards contains no symbol that was first registered
\* by the failed payload, so the next successfully encoded payload can be
\* decoded by a receiver that never received the failed one.
C30_FailedEncodeRegistersNothing ==
    /\ [][(mode = "persistent" /\ rejected' = rejected + 1) =>
                (Len(sender'.entries) = Len(sender.entries) /\ SenderStrings' = SenderStrings)]_vars
    /\ []((mode = "persistent" /\ spc = "decoded" /\ rejected > 0) => got.ok)

====
